---- MODULE Spec2Model ----
(***************************************************************************)
(* The relationship graph of packages/graph/src/-private/graph.ts.         *)
(*                                                                         *)
(* One relationship is declared between two record types: field "f" on     *)
(* type A and its inverse "g" on type B.  The shape of the relationship    *)
(* (to-one / to-many / implicit inverse, sync / async on each side) is     *)
(* supplied by the schema provider and is drawn in Init.                   *)
(***************************************************************************)
EXTENDS Integers, Sequences, FiniteSets, TLC

VARIABLES
    schema,                 \* what the schema provider answers for A.f <-> B.g
    newIds,                 \* identifiers for which isNew(identifier) is true
    identifiers,            \* Graph.identifiers: the identifiers that have a node
    rels,                   \* the edges of the nodes, by <<identifier, field>>
    metaCache,              \* Graph._metaCache: the <<type, field>> pairs resolved
    upgrades,               \* how often upgradeDefinition ran, by <<type, field>>
    willSyncRemote,         \* Graph._willSyncRemote
    willSyncLocal,          \* Graph._willSyncLocal
    pushedUpdates,          \* Graph._pushedUpdates
    updatedRelationships,   \* Graph._updatedRelationships, in insertion order
    transaction,            \* Graph._transaction: open is FALSE for null, else the Set is edges
    removing,               \* Graph._removing
    unloading,              \* the running remove: the graph it called unload on, how far unload is
    isDestroyed,            \* Graph.isDestroyed (store is null exactly then)
    coalesceCbs,            \* callbacks outstanding on the store's 'coalesce' queue
    syncCbs,                \* callbacks outstanding on the store's 'sync' queue
    pc,                     \* "idle", "remote" / "local" while a flush runs, "remove" inside remove, "handler" inside a handler it notified
    batch,                  \* _flushRemoteQueue's locals deletions, hasMany, belongsTo
    applied,                \* the operations the running/last remote flush handed to update
    pushed,                 \* the operations pushed since the last remote flush began
    taken,                  \* the pushes the running/last remote flush drained, in push order
    updated,                \* _flushLocalQueue's local updated: the edges yet to visit, in order
    resynced,               \* the edges the running local flush has resynced, in order
    calls,                  \* the calls the cache has made so far
    budget,                 \* the calls the cache makes in this run
    last                    \* the call that produced this state and what it notified

vars == <<schema, newIds, identifiers, rels, metaCache, upgrades, willSyncRemote,
          willSyncLocal, pushedUpdates, updatedRelationships, transaction,
          removing, unloading, isDestroyed, coalesceCbs, syncCbs, pc, batch, applied,
          pushed, taken, updated, resynced, calls, budget, last>>

-----------------------------------------------------------------------------
(* Bounds *)

\* the most operations that may wait in _pushedUpdates at one time
MaxPending == 3

\* the most edges that may wait in _updatedRelationships when the cache
\* pushes without a budget of calls
MaxWaiting == 2

\* the most calls the cache makes that change the graph or its queues (not
\* counted: the scheduler's callbacks, which always run, and isReleasable,
\* which changes nothing)
MaxCalls == 2

\* the same, where every field of A is to-one and the cache only replaces
\* to-one values, unloads and removes
MaxToOneCalls == 3

\* the same, where the cache materializes, links, deletes, unloads, removes
\* and asks isReleasable
MaxReleaseCalls == 3

\* the same, where the cache hands update any operation in any mode
MaxUpdateCalls == 2

\* the same, where the cache links records and removes them
MaxRemoveCalls == 3

\* the most operations the cache pushes where one of them is refused by
\* update in remote mode
MaxRefuseCalls == 3

\* the same, where the cache asks has and get between links, deletions,
\* unloads and removes
MaxLookupCalls == 3

\* the same, where the cache asks for definitions and edges, pushes and
\* applies operations and destroys the graph
MaxDefinitionCalls == 2

\* the pushes the cache makes where it pushes payloads for to-many fields
MaxBatchCalls == 3

\* the calls of the cache where it links records remotely and locally and
\* deletes them
MaxDeleteCalls == 3

\* the calls of the cache where it materializes edges, links records and
\* unloads them
MaxUnloadCalls == 3

\* the pushes the cache makes where the local flush is followed edge by edge
MaxLocalCalls == 2

\* the calls of the cache where it pushes any operation, also one that push
\* refuses, and destroys the graph
MaxPendingCalls == 2

-----------------------------------------------------------------------------
(* Identifiers and the schema *)

AIds == {"a1"}
BIds == {"b1", "b2"}
Ids == AIds \cup BIds
Null == "null"

TypeOf(i) == IF i \in AIds THEN "A" ELSE "B"
IdsOfType(t) == IF t = "A" THEN AIds ELSE BIds

LhsKey == "f"
RhsKey == "g"
FieldsOf(t) == IF t = "A" THEN <<LhsKey>> ELSE <<RhsKey>>
KeyOf(i) == FieldsOf(TypeOf(i))[1]
Keys == {<<i, KeyOf(i)>> : i \in Ids}
\* the (type, field) pairs a definition can be asked for
DefinitionKeys == {<<TypeOf(i), KeyOf(i)>> : i \in Ids}

Schemas ==
    { s \in [lhsKind : {"belongsTo", "hasMany"}, lhsAsync : BOOLEAN,
             rhsKind : {"belongsTo", "hasMany", "implicit"}, rhsAsync : BOOLEAN] :
        s.rhsKind = "implicit" => ~s.rhsAsync }

\* upgradeDefinition + isLHS: the definition of one side, synced with its inverse
upgradeDefinition(type, key) ==
    IF type = "A"
    THEN [kind |-> schema.lhsKind, key |-> LhsKey, type |-> "B",
          isAsync |-> schema.lhsAsync, isImplicit |-> FALSE,
          inverseKey |-> RhsKey, inverseKind |-> schema.rhsKind,
          inverseIsAsync |-> schema.rhsAsync,
          inverseIsImplicit |-> (schema.rhsKind = "implicit")]
    ELSE [kind |-> schema.rhsKind, key |-> RhsKey, type |-> "A",
          isAsync |-> schema.rhsAsync, isImplicit |-> (schema.rhsKind = "implicit"),
          inverseKey |-> LhsKey, inverseKind |-> schema.lhsKind,
          inverseIsAsync |-> schema.lhsAsync,
          inverseIsImplicit |-> FALSE]

\* relationship.definition of the edge (identifier, key)
DefinitionOf(i, k) == upgradeDefinition(TypeOf(i), k)

isNew(i) == i \in newIds

-----------------------------------------------------------------------------
(* Edges *)

NoEdge == [kind |-> "none"]

createState ==
    [hasReceivedData |-> FALSE, isEmpty |-> TRUE, isStale |-> FALSE,
     hasDematerializedInverse |-> FALSE]

createResourceEdge ==
    [kind |-> "belongsTo", localState |-> Null, remoteState |-> Null,
     state |-> createState, transactionRef |-> 0]

createCollectionEdge ==
    [kind |-> "hasMany", localState |-> <<>>, remoteState |-> <<>>,
     localMembers |-> {}, remoteMembers |-> {},
     state |-> createState, transactionRef |-> 0]

createImplicitEdge ==
    [kind |-> "implicit", localMembers |-> {}, remoteMembers |-> {}]

isBelongsTo(rel) == rel.kind = "belongsTo"
isHasMany(rel) == rel.kind = "hasMany"
isImplicit(rel) == rel.kind = "implicit"

-----------------------------------------------------------------------------
(* Sequence helpers (Array.prototype.indexOf / splice / filter / includes) *)

Range(s) == {s[n] : n \in 1..Len(s)}
Includes(s, v) == \E n \in 1..Len(s) : s[n] = v
Without(s, v) == SelectSeq(s, LAMBDA x : x # v)

RECURSIVE Dedupe(_)
Dedupe(s) ==
    IF s = <<>> THEN <<>>
    ELSE LET front == Dedupe(SubSeq(s, 1, Len(s) - 1))
         IN IF Includes(front, s[Len(s)]) THEN front ELSE Append(front, s[Len(s)])

\* the members of a Set of identifiers, in one fixed order
IdOrder == <<"a1", "b1", "b2">>
SetToSeq(S) == SelectSeq(IdOrder, LAMBDA x : x \in S)

-----------------------------------------------------------------------------
(* The graph as one value, threaded through the handlers.                  *)
(*   ids, rel, meta, txn, upd, wsl, sync : the Graph fields they change    *)
(*   upgr  : the upgradeDefinition calls made, counted by <<type, field>>  *)
(*   notes : the notifyChange calls made, in order                         *)
(*   err   : the call has raised; what follows the raise in the handler is  *)
(*           not run, so every step below leaves a graph with err alone    *)
(*   stop  : the notification, counted from 1, at which the call is left   *)
(*           because the handler that is notified re-enters the graph; 0   *)
(*           where no handler does                                         *)

Cur ==
    [ids |-> identifiers, rel |-> rels, meta |-> metaCache, upgr |-> upgrades,
     txn |-> transaction, upd |-> updatedRelationships,
     wsl |-> willSyncLocal, sync |-> syncCbs, notes |-> <<>>, err |-> FALSE,
     stop |-> 0]

Edge(g, i, k) == g.rel[<<i, k>>]
SetEdge(g, i, k, e) == IF g.err THEN g ELSE [g EXCEPT !.rel[<<i, k>>] = e]

\* Graph.has
has(g, identifier, propertyName) ==
    IF identifier \notin g.ids THEN FALSE
    ELSE Edge(g, identifier, propertyName).kind # "none"

\* upgradeDefinition ran for (type, field) and its answer is cached (lines 107, 116-118)
resolveDefinition(g, type, propertyName) ==
    IF g.err THEN g
    ELSE [g EXCEPT !.meta = @ \cup {<<type, propertyName>>},
                   !.upgr[<<type, propertyName>>] = @ + 1]

\* Graph.getDefinition as it would be if it never consulted _metaCache
getDefinitionAnew(g, identifier, propertyName) ==
    resolveDefinition(g, TypeOf(identifier), propertyName)

\* Graph.getDefinition: answers from _metaCache, resolving what is not there yet
getDefinition(g, identifier, propertyName) ==
    IF <<TypeOf(identifier), propertyName>> \in g.meta THEN g
    ELSE resolveDefinition(g, TypeOf(identifier), propertyName)

\* the edge Graph.get creates for a definition of this kind
createEdge(kind) ==
    IF kind = "belongsTo" THEN createResourceEdge
    ELSE IF kind = "hasMany" THEN createCollectionEdge
    ELSE createImplicitEdge

\* Graph.get, lines 125-129: the node is created on first access
getRelationships(g, identifier) ==
    IF g.err THEN g ELSE [g EXCEPT !.ids = @ \cup {identifier}]

\* Graph.get as it would be if it created an edge on every access
getRelationshipAnew(g, identifier, propertyName) ==
    SetEdge(getDefinition(g, identifier, propertyName), identifier, propertyName,
            createEdge(DefinitionOf(identifier, propertyName).kind))

\* Graph.get, lines 131-145: the edge is created on first access
getRelationship(g, identifier, propertyName) ==
    IF Edge(g, identifier, propertyName).kind # "none" THEN g
    ELSE SetEdge(getDefinition(g, identifier, propertyName), identifier, propertyName,
                 createEdge(DefinitionOf(identifier, propertyName).kind))

\* Graph.get
get(g, identifier, propertyName) ==
    getRelationship(getRelationships(g, identifier), identifier, propertyName)

\* notifyChange(graph, identifier, key)
notifyChange(g, identifier, key) ==
    IF g.err THEN g
    ELSE [g EXCEPT !.notes = Append(@, <<identifier, key>>),
                   !.err = (Len(g.notes) + 1 = g.stop)]

\* Graph._addToTransaction: the assertion of line 425 raises when no
\* transaction is open
addToTransaction(g, i, k) ==
    IF g.err THEN g
    ELSE IF ~g.txn.open THEN [g EXCEPT !.err = TRUE]
    ELSE [g EXCEPT !.rel[<<i, k>>].transactionRef = @ + 1,
                   !.txn.edges = @ \cup {<<i, k>>}]

\* if (isRemote) graph._addToTransaction(relationship)
addToTransactionIf(g, i, k, isRemote) ==
    IF isRemote THEN addToTransaction(g, i, k) ELSE g

\* An entry of _updatedRelationships: the edge registered at (id, key), or an
\* edge object that has since been dropped from its node (live = FALSE), which
\* the set still holds with the state it had when it was dropped.
LiveRef(i, k) ==
    [id |-> i, key |-> k, live |-> TRUE, localState |-> <<>>, remoteState |-> <<>>]
DroppedRef(i, k, rel) ==
    [id |-> i, key |-> k, live |-> FALSE,
     localState |-> rel.localState, remoteState |-> rel.remoteState]

\* Set.prototype.add: a Set keeps its members in the order they were added
AddRef(refs, ref) == IF Includes(refs, ref) THEN refs ELSE Append(refs, ref)

\* _scheduleLocalSync as it would be if every call scheduled a callback
scheduleLocalSyncAlways(g, i, k) ==
    IF g.err THEN g
    ELSE [g EXCEPT !.upd = AddRef(@, LiveRef(i, k)), !.wsl = TRUE,
                   !.sync = IF isDestroyed THEN @ ELSE @ + 1,
                   !.err = isDestroyed]

\* Graph._scheduleLocalSync; getStore(this.store) raises at line 391 when
\* destroy has set the store to null, after lines 388 and 390 have run
scheduleLocalSync(g, i, k) ==
    IF g.err THEN g
    ELSE IF ~g.wsl
    THEN [g EXCEPT !.upd = AddRef(@, LiveRef(i, k)), !.wsl = TRUE,
                   !.sync = IF isDestroyed THEN @ ELSE @ + 1,
                   !.err = isDestroyed]
    ELSE [g EXCEPT !.upd = AddRef(@, LiveRef(i, k))]

\* relationships[key] = undefined: the edge object leaves the node but stays in
\* _updatedRelationships, at its place, if it was scheduled for a local sync
DropEdge(g, i, k) ==
    IF g.err THEN g
    ELSE IF isHasMany(Edge(g, i, k)) /\ Includes(g.upd, LiveRef(i, k))
    THEN [g EXCEPT !.upd = [n \in 1..Len(@) |->
                              IF @[n] = LiveRef(i, k)
                              THEN DroppedRef(i, k, Edge(g, i, k)) ELSE @[n]],
                   !.rel[<<i, k>>] = NoEdge]
    ELSE SetEdge(g, i, k, NoEdge)

\* identifiers.delete(identifier)
RECURSIVE DropEdges(_, _, _)
DropEdges(g, i, ks) ==
    IF ks = <<>> THEN g
    ELSE DropEdges(DropEdge(g, i, ks[1]), i, Tail(ks))

DeleteNode(g, i) ==
    [DropEdges(g, i, FieldsOf(TypeOf(i))) EXCEPT !.ids = @ \ {i}]

-----------------------------------------------------------------------------
(* -utils *)

\* forAllRelatedIdentifiers: the identifiers the callback is called with, in order
forAllRelatedIdentifiers(rel) ==
    IF isBelongsTo(rel)
    THEN (IF rel.remoteState # Null THEN <<rel.remoteState>> ELSE <<>>)
         \o (IF rel.localState # Null /\ rel.localState # rel.remoteState
             THEN <<rel.localState>> ELSE <<>>)
    ELSE IF isHasMany(rel)
    THEN Dedupe(rel.localState \o rel.remoteState)
    ELSE Dedupe(SetToSeq(rel.localMembers) \o SetToSeq(rel.remoteMembers))

\* if (cond) notifyChange(graph, identifier, key)
notifyChangeIf(g, i, k, cond) ==
    IF cond THEN notifyChange(g, i, k) ELSE g

\* removeIdentifierCompletelyFromRelationship(graph, relationship, value)
removeIdentifierCompletelyFromRelationship(g, i, k, value) ==
    LET rel == Edge(g, i, k)
    IN IF isBelongsTo(rel)
       THEN notifyChangeIf(
              SetEdge(g, i, k,
                 [rel EXCEPT !.remoteState = IF @ = value THEN Null ELSE @,
                             !.localState = IF @ = value THEN Null ELSE @]),
              i, k, rel.localState = value)
       ELSE IF isHasMany(rel)
       THEN notifyChangeIf(
              SetEdge(g, i, k,
                 [rel EXCEPT !.remoteMembers = @ \ {value},
                             !.localMembers = @ \ {value},
                             !.remoteState = Without(@, value),
                             !.localState = Without(@, value)]),
              i, k, Includes(rel.localState, value))
       ELSE SetEdge(g, i, k, [rel EXCEPT !.remoteMembers = @ \ {value},
                                         !.localMembers = @ \ {value}])

-----------------------------------------------------------------------------
(* Dematerialization: graph.ts lines 479-640 *)

\* isReleasable as it would be if it did not ask whether the identifier is new
isReleasableIgnoringNew(g, identifier) ==
    IF identifier \notin g.ids THEN TRUE
    ELSE LET keys == FieldsOf(TypeOf(identifier))
         IN ~ \E n \in 1..Len(keys) :
                /\ Edge(g, identifier, keys[n]).kind # "none"
                /\ DefinitionOf(identifier, keys[n]).inverseIsAsync

\* Graph.isReleasable
isReleasable(g, identifier) ==
    IF identifier \notin g.ids THEN TRUE
    ELSE LET keys == FieldsOf(TypeOf(identifier))
         IN ~ \E n \in 1..Len(keys) :
                /\ Edge(g, identifier, keys[n]).kind # "none"
                /\ DefinitionOf(identifier, keys[n]).inverseIsAsync
                /\ ~isNew(identifier)

clearRelationship(rel) ==
    IF isBelongsTo(rel)
    THEN [rel EXCEPT !.localState = Null, !.remoteState = Null,
                     !.state.hasReceivedData = FALSE, !.state.isEmpty = TRUE]
    ELSE [rel EXCEPT !.localMembers = {}, !.remoteMembers = {},
                     !.localState = <<>>, !.remoteState = <<>>]

\* removeDematerializedInverse, lines 570-591: the to-one edge after the branch
dematerializedResource(rel, isAsync) ==
    LET localInverse == rel.localState
    IN IF ~isAsync \/ (localInverse # Null /\ isNew(localInverse))
       THEN IF localInverse = Null THEN rel
            ELSE IF rel.remoteState = localInverse
            THEN [rel EXCEPT !.localState = Null,
                             !.remoteState = Null,
                             !.state.hasReceivedData = TRUE,
                             !.state.isEmpty = TRUE]
            ELSE [rel EXCEPT !.localState = Null]
       ELSE [rel EXCEPT !.state.hasDematerializedInverse = TRUE]

\* removeDematerializedInverse, lines 597-606: the graph after the to-many branch
dematerializedCollection(g, i, k, inverseIdentifier) ==
    IF ~DefinitionOf(i, k).isAsync \/ isNew(inverseIdentifier)
    THEN removeIdentifierCompletelyFromRelationship(g, i, k, inverseIdentifier)
    ELSE SetEdge(g, i, k, [Edge(g, i, k) EXCEPT !.state.hasDematerializedInverse = TRUE])

removeDematerializedInverse(g, i, k, inverseIdentifier, silenceNotifications) ==
    IF isBelongsTo(Edge(g, i, k))
    THEN notifyChangeIf(
           SetEdge(g, i, k, dematerializedResource(Edge(g, i, k), DefinitionOf(i, k).isAsync)),
           i, k, ~silenceNotifications)
    ELSE notifyChangeIf(dematerializedCollection(g, i, k, inverseIdentifier),
                        i, k, ~silenceNotifications)

notifyInverseOfDematerialization(g, inverseIdentifier, inverseKey, identifier, silenced) ==
    IF ~has(g, inverseIdentifier, inverseKey) THEN g
    ELSE LET relationship == Edge(g, inverseIdentifier, inverseKey)
         IN IF \/ ~isBelongsTo(relationship)
               \/ relationship.localState = Null
               \/ identifier = relationship.localState
            THEN removeDematerializedInverse(g, inverseIdentifier, inverseKey,
                                             identifier, silenced)
            ELSE g

\* the forAllRelatedIdentifiers loop of destroyRelationship, lines 499-507
RECURSIVE NotifyInverses(_, _, _, _, _)
NotifyInverses(g, related, inverseKey, identifier, silenceNotifications) ==
    IF related = <<>> THEN g
    ELSE NotifyInverses(
            notifyInverseOfDematerialization(g, related[1], inverseKey, identifier,
                                             silenceNotifications),
            Tail(related), inverseKey, identifier, silenceNotifications)

\* the callback of the loop of removeCompletelyFromInverse, lines 619-621
removeFromInverseIfPresent(g, inverseIdentifier, inverseKey, identifier) ==
    IF has(g, inverseIdentifier, inverseKey)
    THEN removeIdentifierCompletelyFromRelationship(g, inverseIdentifier, inverseKey,
                                                    identifier)
    ELSE g

\* the forAllRelatedIdentifiers loop of removeCompletelyFromInverse, lines 618-622
RECURSIVE RemoveFromInverses(_, _, _, _)
RemoveFromInverses(g, related, inverseKey, identifier) ==
    IF related = <<>> THEN g
    ELSE RemoveFromInverses(
            removeFromInverseIfPresent(g, related[1], inverseKey, identifier),
            Tail(related), inverseKey, identifier)

\* removeCompletelyFromInverse, lines 624-639: what becomes of the edge itself
clearOwnState(g, i, k) ==
    LET rel == Edge(g, i, k)
        isAsync == DefinitionOf(i, k).isAsync
    IN IF isBelongsTo(rel)
       THEN SetEdge(g, i, k,
                [(IF ~isAsync THEN clearRelationship(rel) ELSE rel)
                    EXCEPT !.localState = Null])
       ELSE IF isHasMany(rel)
       THEN IF ~isAsync
            THEN notifyChange(SetEdge(g, i, k, clearRelationship(rel)), i, k)
            ELSE g
       ELSE SetEdge(g, i, k, [rel EXCEPT !.remoteMembers = {}, !.localMembers = {}])

\* removeCompletelyFromInverse as it would be if it left an asynchronous inverse alone
removeCompletelyFromSyncInverse(g, i, k) ==
    clearOwnState(
        IF DefinitionOf(i, k).inverseIsAsync THEN g
        ELSE RemoveFromInverses(g, forAllRelatedIdentifiers(Edge(g, i, k)),
                                DefinitionOf(i, k).inverseKey, i),
        i, k)

removeCompletelyFromInverse(g, i, k) ==
    clearOwnState(
        RemoveFromInverses(g, forAllRelatedIdentifiers(Edge(g, i, k)),
                           DefinitionOf(i, k).inverseKey, i),
        i, k)

\* destroyRelationship, lines 498-508
notifyRelated(g, i, k, silenceNotifications) ==
    IF ~DefinitionOf(i, k).inverseIsImplicit
    THEN NotifyInverses(g, forAllRelatedIdentifiers(Edge(g, i, k)),
                        DefinitionOf(i, k).inverseKey, i, silenceNotifications)
    ELSE g

\* destroyRelationship, lines 510-525, as they would be if the edge were
\* cleared whatever its inverse is
clearWhateverTheInverse(g, i, k, silenceNotifications) ==
    notifyChangeIf(
        SetEdge(g, i, k, clearRelationship([Edge(g, i, k) EXCEPT !.state.isStale = TRUE])),
        i, k, ~DefinitionOf(i, k).isAsync /\ ~silenceNotifications)

\* destroyRelationship, lines 510-525
clearIfInverseIsSync(g, i, k, silenceNotifications) ==
    LET def == DefinitionOf(i, k)
    IN IF ~def.inverseIsImplicit /\ ~def.inverseIsAsync
       THEN notifyChangeIf(
              SetEdge(g, i, k,
                      clearRelationship([Edge(g, i, k) EXCEPT !.state.isStale = TRUE])),
              i, k, ~def.isAsync /\ ~silenceNotifications)
       ELSE g

destroyRelationship(g, i, k, silenceNotifications) ==
    IF isImplicit(Edge(g, i, k))
    THEN IF isReleasable(g, i) THEN removeCompletelyFromInverse(g, i, k) ELSE g
    ELSE clearIfInverseIsSync(notifyRelated(g, i, k, silenceNotifications),
                              i, k, silenceNotifications)

\* Graph.unload, lines 268-271
dropIfImplicit(g, i, k) ==
    IF isImplicit(Edge(g, i, k)) THEN DropEdge(g, i, k) ELSE g

\* Graph.unload, lines 262-272: the callback of the loop over the node's keys
unloadKey(g, identifier, key, silenceNotifications) ==
    IF Edge(g, identifier, key).kind = "none" THEN g
    ELSE dropIfImplicit(destroyRelationship(g, identifier, key, silenceNotifications),
                        identifier, key)

RECURSIVE UnloadKeys(_, _, _, _)
UnloadKeys(g, identifier, keys, silenceNotifications) ==
    IF keys = <<>> THEN g
    ELSE UnloadKeys(unloadKey(g, identifier, keys[1], silenceNotifications),
                    identifier, Tail(keys), silenceNotifications)

\* Graph.unload
unload(g, identifier, silenceNotifications) ==
    IF identifier \in g.ids
    THEN UnloadKeys(g, identifier, FieldsOf(TypeOf(identifier)), silenceNotifications)
    ELSE g

\* Graph.remove (the _removing mark is set and cleared by the Remove action)
remove(g, identifier) ==
    DeleteNode(unload(g, identifier, FALSE), identifier)

-----------------------------------------------------------------------------
(* The operations applied by Graph.update *)

\* removeFromInverse, once the inverse edge exists
removeFromInverseEdge(g, identifier, key, value, isRemote) ==
    IF g.err THEN g ELSE
    LET rel == Edge(g, identifier, key)
    IN IF isBelongsTo(rel)
       THEN addToTransactionIf(
              notifyChangeIf(
                SetEdge(g, identifier, key,
                   [rel EXCEPT !.state.isEmpty = TRUE,
                               !.remoteState = IF isRemote THEN Null ELSE @,
                               !.localState = IF @ = value THEN Null ELSE @]),
                identifier, key, rel.localState = value),
              identifier, key, isRemote)
       ELSE IF isHasMany(rel)
       THEN addToTransactionIf(
              notifyChange(
                SetEdge(g, identifier, key,
                   [rel EXCEPT !.remoteMembers =
                                  IF isRemote /\ Includes(rel.remoteState, value)
                                  THEN @ \ {value} ELSE @,
                               !.remoteState = IF isRemote THEN Without(@, value) ELSE @,
                               !.localMembers =
                                  IF Includes(rel.localState, value)
                                  THEN @ \ {value} ELSE @,
                               !.localState = Without(@, value)]),
                identifier, key),
              identifier, key, isRemote)
       ELSE SetEdge(g, identifier, key,
               [rel EXCEPT !.remoteMembers = IF isRemote THEN @ \ {value} ELSE @,
                           !.localMembers = @ \ {value}])

\* removeFromInverse(graph, identifier, key, value, isRemote)
removeFromInverse(g, identifier, key, value, isRemote) ==
    removeFromInverseEdge(get(g, identifier, key), identifier, key, value, isRemote)

\* if (value !== null) removeFromInverse(graph, value, key, identifier, isRemote)
removeFromInverseIf(g, value, key, identifier, isRemote, cond) ==
    IF cond THEN removeFromInverse(g, value, key, identifier, isRemote) ELSE g

SetRemoteState(g, i, k, v) ==
    IF g.err THEN g ELSE [g EXCEPT !.rel[<<i, k>>].remoteState = v]
SetLocalState(g, i, k, v) ==
    IF g.err THEN g ELSE [g EXCEPT !.rel[<<i, k>>].localState = v]

\* addToInverse on a to-one edge: the remote half
addToResourceRemote(g, identifier, key, value) ==
    SetRemoteState(
        removeFromInverseIf(addToTransaction(g, identifier, key),
                            Edge(g, identifier, key).remoteState,
                            DefinitionOf(identifier, key).inverseKey, identifier, TRUE,
                            Edge(g, identifier, key).remoteState # Null),
        identifier, key, value)

\* addToInverse on a to-one edge: the local half
addToResourceLocal(g, identifier, key, value, isRemote) ==
    LET local == Edge(g, identifier, key).localState
    IN IF local # value
       THEN notifyChange(
              SetLocalState(
                removeFromInverseIf(g, local, DefinitionOf(identifier, key).inverseKey,
                                    identifier, isRemote, ~isRemote /\ local # Null),
                identifier, key, value),
              identifier, key)
       ELSE g

addToResource(g, identifier, key, value, isRemote) ==
    IF isRemote
    THEN addToResourceLocal(addToResourceRemote(g, identifier, key, value),
                            identifier, key, value, isRemote)
    ELSE addToResourceLocal(g, identifier, key, value, isRemote)

\* addToInverse, once the inverse edge exists
addToInverseEdge(g, identifier, key, value, isRemote) ==
    IF g.err THEN g ELSE
    LET rel == Edge(g, identifier, key)
    IN IF isBelongsTo(rel)
       THEN addToResource(SetEdge(g, identifier, key, [rel EXCEPT !.state.isEmpty = FALSE]),
                          identifier, key, value, isRemote)
       ELSE IF isHasMany(rel)
       THEN IF isRemote
            THEN IF value \notin rel.remoteMembers
                 THEN scheduleLocalSync(
                        addToTransaction(
                          SetEdge(g, identifier, key,
                             [rel EXCEPT !.remoteState = Append(@, value),
                                         !.remoteMembers = @ \cup {value},
                                         !.state.hasReceivedData = TRUE]),
                          identifier, key),
                        identifier, key)
                 ELSE g
            ELSE IF value \notin rel.localMembers
                 THEN notifyChange(
                        SetEdge(g, identifier, key,
                           [rel EXCEPT !.localState = Append(@, value),
                                       !.localMembers = @ \cup {value},
                                       !.state.hasReceivedData = TRUE]),
                        identifier, key)
                 ELSE g
       ELSE IF isRemote
            THEN IF value \notin rel.remoteMembers
                 THEN SetEdge(g, identifier, key,
                         [rel EXCEPT !.remoteMembers = @ \cup {value},
                                     !.localMembers = @ \cup {value}])
                 ELSE g
            ELSE SetEdge(g, identifier, key,
                    [rel EXCEPT !.localMembers = @ \cup {value}])

\* addToInverse(graph, identifier, key, value, isRemote)
addToInverse(g, identifier, key, value, isRemote) ==
    addToInverseEdge(get(g, identifier, key), identifier, key, value, isRemote)

\* if (value) addToInverse(graph, value, key, identifier, isRemote)
addToInverseIf(g, value, key, identifier, isRemote, cond) ==
    IF cond THEN addToInverse(g, value, key, identifier, isRemote) ELSE g

\* syncRemoteToLocal(graph, rel): what the edge's local state becomes
SyncedLocalState(localState, remoteState) ==
    remoteState \o SelectSeq(localState,
                             LAMBDA x : isNew(x) /\ ~Includes(remoteState, x))

syncRemoteToLocal(g, ref) ==
    IF ref.live
    THEN LET rel == Edge(g, ref.id, ref.key)
             newLocal == SyncedLocalState(rel.localState, rel.remoteState)
         IN notifyChangeIf(
              SetEdge(g, ref.id, ref.key,
                      [rel EXCEPT !.localState = newLocal,
                                  !.localMembers = Range(newLocal)]),
              ref.id, ref.key, rel.localState # newLocal)
    ELSE notifyChangeIf(g, ref.id, ref.key,
                        ref.localState # SyncedLocalState(ref.localState, ref.remoteState))

\* replaceRelatedRecord when op.value is the existing state: nothing to replace
keepRelatedRecord(g, op, isRemote) ==
    LET rel == Edge(g, op.record, op.field)
        existingState == IF isRemote THEN rel.remoteState ELSE rel.localState
        synced == \/ ~isRemote
                  \/ (rel.localState # Null /\ isNew(rel.localState) /\ existingState = Null)
                  \/ rel.localState = existingState
    IN notifyChangeIf(
         SetEdge(g, op.record, op.field,
                 [rel EXCEPT !.state.hasReceivedData = TRUE,
                             !.localState = IF synced THEN @ ELSE existingState]),
         op.record, op.field, ~synced)

\* replaceRelatedRecord: relationship[prop] = op.value and the flags set with it
setRelatedRecord(g, op, isRemote) ==
    SetEdge(g, op.record, op.field,
        [Edge(g, op.record, op.field) EXCEPT
            !.remoteState = IF isRemote THEN op.value ELSE @,
            !.localState = IF isRemote THEN @ ELSE op.value,
            !.state.hasReceivedData = TRUE,
            !.state.isEmpty = (op.value = Null),
            !.state.isStale = FALSE])

\* replaceRelatedRecord: the end, where a remote replace carries over to the
\* local state and a local replace notifies
settleRelatedRecord(g, op, isRemote, existingState) ==
    IF g.err THEN g ELSE
    LET rel == Edge(g, op.record, op.field)
    IN IF isRemote
       THEN IF rel.localState # Null /\ isNew(rel.localState) /\ rel.remoteState = Null
            THEN g
            ELSE IF rel.localState # rel.remoteState /\ rel.localState = existingState
            THEN notifyChange(SetLocalState(g, op.record, op.field, rel.remoteState),
                              op.record, op.field)
            ELSE g
       ELSE notifyChange(g, op.record, op.field)

\* replaceRelatedRecord, once the edge exists and is in the transaction
replaceResource(g, op, isRemote) ==
    IF g.err THEN g ELSE
    LET rel == Edge(g, op.record, op.field)
        inverseKey == DefinitionOf(op.record, op.field).inverseKey
        existingState == IF isRemote THEN rel.remoteState ELSE rel.localState
    IN IF op.value = existingState
       THEN keepRelatedRecord(g, op, isRemote)
       ELSE settleRelatedRecord(
              addToInverseIf(
                setRelatedRecord(
                  removeFromInverseIf(g, existingState, inverseKey, op.record, isRemote,
                                      existingState # Null),
                  op, isRemote),
                op.value, inverseKey, op.record, isRemote, op.value # Null),
              op, isRemote, existingState)

\* operations/replace-related-record
replaceRelatedRecord(g, op, isRemote) ==
    replaceResource(
        addToTransactionIf(get(g, op.record, op.field), op.record, op.field, isRemote),
        op, isRemote)

\* the loop of replaceRelatedRecords at index n: the new entry is added to its
\* inverse if it was no member, then the old entry is removed from its inverse
\* if it is not among the new values
replaceAt(g, op, oldState, oldMembers, n, isRemote) ==
    LET inverseKey == DefinitionOf(op.record, op.field).inverseKey
    IN removeFromInverseIf(
         addToInverseIf(g, IF n <= Len(op.values) THEN op.values[n] ELSE Null,
                        inverseKey, op.record, isRemote,
                        /\ n <= Len(op.values)
                        /\ ~Includes(SubSeq(op.values, 1, n - 1), op.values[n])
                        /\ op.values[n] \notin oldMembers),
         IF n <= Len(oldState) THEN oldState[n] ELSE Null,
         inverseKey, op.record, isRemote,
         n <= Len(oldState) /\ ~Includes(op.values, oldState[n]))

RECURSIVE ReplaceLoop(_, _, _, _, _, _, _)
ReplaceLoop(g, op, oldState, oldMembers, n, last_n, isRemote) ==
    IF n > last_n THEN g
    ELSE ReplaceLoop(replaceAt(g, op, oldState, oldMembers, n, isRemote),
                     op, oldState, oldMembers, n + 1, last_n, isRemote)

Max(x, y) == IF x > y THEN x ELSE y

\* replaceRelatedRecords: the new state of the targeted layer
setRelatedRecords(g, op, isRemote) ==
    LET newState == Dedupe(op.values)
    IN SetEdge(g, op.record, op.field,
          [Edge(g, op.record, op.field) EXCEPT
              !.state.hasReceivedData = TRUE,
              !.remoteState = IF isRemote THEN newState ELSE @,
              !.remoteMembers = IF isRemote THEN Range(newState) ELSE @,
              !.localState = IF isRemote THEN @ ELSE newState,
              !.localMembers = IF isRemote THEN @ ELSE Range(newState)])

\* replaceRelatedRecords: the end, a remote replace schedules the local sync
\* and a local replace notifies if the list changed
settleRelatedRecords(g, op, isRemote, changed) ==
    IF isRemote THEN scheduleLocalSync(g, op.record, op.field)
    ELSE notifyChangeIf(g, op.record, op.field, changed)

\* replaceRelatedRecords, once the edge exists and is in the transaction
replaceCollection(g, op, isRemote) ==
    IF g.err THEN g ELSE
    LET rel == Edge(g, op.record, op.field)
        oldState == IF isRemote THEN rel.remoteState ELSE rel.localState
        oldMembers == IF isRemote THEN rel.remoteMembers ELSE rel.localMembers
    IN settleRelatedRecords(
         ReplaceLoop(setRelatedRecords(g, op, isRemote), op, oldState, oldMembers,
                     1, Max(Len(op.values), Len(oldState)), isRemote),
         op, isRemote, Dedupe(op.values) # oldState)

\* operations/replace-related-records
replaceRelatedRecords(g, op, isRemote) ==
    replaceCollection(
        addToTransactionIf(get(g, op.record, op.field), op.record, op.field, isRemote),
        op, isRemote)

\* operations/add-to-related-records (one identifier, at the end or at an index)
addToRelatedRecordsEdge(g, op) ==
    LET rel == Edge(g, op.record, op.field)
    IN notifyChange(
         IF op.value \in rel.localMembers THEN g
         ELSE addToInverse(
                SetEdge(g, op.record, op.field,
                   [rel EXCEPT !.state.hasReceivedData = TRUE,
                               !.localMembers = @ \cup {op.value},
                               !.localState =
                                  SubSeq(@, 1, op.index) \o <<op.value>>
                                  \o SubSeq(@, op.index + 1, Len(@))]),
                op.value, DefinitionOf(op.record, op.field).inverseKey, op.record, FALSE),
         op.record, op.field)

addToRelatedRecords(g, op) ==
    addToRelatedRecordsEdge(get(g, op.record, op.field), op)

\* operations/remove-from-related-records
removeFromRelatedRecordsEdge(g, op) ==
    LET rel == Edge(g, op.record, op.field)
    IN notifyChange(
         IF op.value \notin rel.localMembers THEN g
         ELSE removeFromInverse(
                SetEdge(g, op.record, op.field,
                   [rel EXCEPT !.localMembers = @ \ {op.value},
                               !.localState = Without(@, op.value)]),
                op.value, DefinitionOf(op.record, op.field).inverseKey, op.record, FALSE),
         op.record, op.field)

removeFromRelatedRecords(g, op) ==
    removeFromRelatedRecordsEdge(get(g, op.record, op.field), op)
-----------------------------------------------------------------------------
(* operations/merge-identifier: op.record is retired in favour of op.value *)

\* value takes the place of record in a list
Renamed(s, record, value) ==
    [n \in 1..Len(s) |-> IF s[n] = record THEN value ELSE s[n]]

\* value takes the place of record in a Set
RenamedIn(S, record, value) ==
    IF record \in S THEN (S \ {record}) \cup {value} ELSE S

\* mergeInRelationship: the inverse edge (i, k) names op.value where it named
\* op.record
mergeInRelationship(g, i, k, op) ==
    LET rel == Edge(g, i, k)
    IN IF isBelongsTo(rel)
       THEN notifyChangeIf(
              SetEdge(g, i, k,
                 [rel EXCEPT !.remoteState = IF @ = op.record THEN op.value ELSE @,
                             !.localState = IF @ = op.record THEN op.value ELSE @]),
              i, k, rel.localState = op.record)
       ELSE IF isHasMany(rel)
       THEN notifyChangeIf(
              SetEdge(g, i, k,
                 [rel EXCEPT !.remoteMembers = RenamedIn(@, op.record, op.value),
                             !.localMembers = RenamedIn(@, op.record, op.value),
                             !.remoteState = Renamed(@, op.record, op.value),
                             !.localState = Renamed(@, op.record, op.value)]),
              i, k, op.record \in rel.localMembers)
       ELSE SetEdge(g, i, k,
                 [rel EXCEPT !.remoteMembers = RenamedIn(@, op.record, op.value),
                             !.localMembers = RenamedIn(@, op.record, op.value)])

\* the forAllRelatedIdentifiers loop of mergeIdentifierForRelationship
RECURSIVE MergeInverses(_, _, _, _)
MergeInverses(g, related, inverseKey, op) ==
    IF related = <<>> THEN g
    ELSE MergeInverses(
            mergeInRelationship(get(g, related[1], inverseKey), related[1], inverseKey, op),
            Tail(related), inverseKey, op)

\* mergeIdentifier: the callback of the loop over the keys of the retiring node
mergeKey(g, op, key) ==
    IF Edge(g, op.record, key).kind = "none" THEN g
    ELSE MergeInverses(g, forAllRelatedIdentifiers(Edge(g, op.record, key)),
                       DefinitionOf(op.record, key).inverseKey, op)

RECURSIVE MergeKeys(_, _, _)
MergeKeys(g, op, keys) ==
    IF keys = <<>> THEN g
    ELSE MergeKeys(mergeKey(g, op, keys[1]), op, Tail(keys))

\* the mergeIdentifiers case of Graph.update, lines 330-336
mergeIdentifier(g, op) ==
    IF op.record \in g.ids
    THEN MergeKeys(g, op, FieldsOf(TypeOf(op.record)))
    ELSE g


-----------------------------------------------------------------------------
(* Operations: value is the identifier (or Null) of a to-one operation,    *)
(* values the identifiers of a to-many operation, index the insert         *)
(* position of addToRelatedRecords.                                        *)

Op(name, record, field, value, values, index) ==
    [op |-> name, record |-> record, field |-> field, value |-> value,
     values |-> values, index |-> index]

RECURSIVE update(_, _, _)

\* operations/update-relationship: the flags a payload with data leaves
markReceived(g, op, relationshipIsEmpty) ==
    SetEdge(g, op.record, op.field,
          [Edge(g, op.record, op.field) EXCEPT
              !.state.hasReceivedData = TRUE,
              !.state.isStale = FALSE,
              !.state.hasDematerializedInverse = FALSE,
              !.state.isEmpty = relationshipIsEmpty])

\* operations/update-relationship: a payload with data replaces the remote state
updateRelationshipOperation(g, op) ==
    IF DefinitionOf(op.record, op.field).kind = "hasMany"
    THEN markReceived(
           update(get(g, op.record, op.field),
                  Op("replaceRelatedRecords", op.record, op.field, Null, op.values, 0),
                  TRUE),
           op, op.values = <<>>)
    ELSE markReceived(
           update(get(g, op.record, op.field),
                  Op("replaceRelatedRecord", op.record, op.field, op.value, <<>>, 0),
                  TRUE),
           op, op.value = Null)

\* the deleteRecord case of Graph.update, lines 352-361: the callback of the loop
deleteKey(g, identifier, key) ==
    IF Edge(g, identifier, key).kind = "none" THEN g
    ELSE DropEdge(removeCompletelyFromInverse(g, identifier, key), identifier, key)

RECURSIVE DeleteKeys(_, _, _)
DeleteKeys(g, identifier, keys) ==
    IF keys = <<>> THEN g
    ELSE DeleteKeys(deleteKey(g, identifier, keys[1]), identifier, Tail(keys))

\* the deleteRecord case of Graph.update
deleteRecord(g, op) ==
    IF op.record \in g.ids
    THEN DeleteNode(DeleteKeys(g, op.record, FieldsOf(TypeOf(op.record))), op.record)
    ELSE g

Raise(g) == [g EXCEPT !.err = TRUE]

\* the switch of Graph.update as it would be without the assertions on the mode
applyOperationInAnyMode(g, op, isRemote) ==
    IF op.op = "mergeIdentifiers"
    THEN mergeIdentifier(g, op)
    ELSE IF op.op = "updateRelationship"
    THEN updateRelationshipOperation(g, op)
    ELSE IF op.op = "deleteRecord"
    THEN deleteRecord(g, op)
    ELSE IF op.op = "replaceRelatedRecord"
    THEN replaceRelatedRecord(g, op, isRemote)
    ELSE IF op.op = "addToRelatedRecords"
    THEN addToRelatedRecords(g, op)
    ELSE IF op.op = "removeFromRelatedRecords"
    THEN removeFromRelatedRecords(g, op)
    ELSE IF op.op = "replaceRelatedRecords"
    THEN replaceRelatedRecords(g, op, isRemote)
    ELSE Raise(g)

\* Graph.update, lines 329-384: the switch
applyOperation(g, op, isRemote) ==
    IF op.op = "mergeIdentifiers"
    THEN mergeIdentifier(g, op)
    ELSE IF op.op = "updateRelationship"
    THEN IF ~isRemote THEN Raise(g) ELSE updateRelationshipOperation(g, op)
    ELSE IF op.op = "deleteRecord"
    THEN IF ~isRemote THEN Raise(g) ELSE deleteRecord(g, op)
    ELSE IF op.op = "replaceRelatedRecord"
    THEN replaceRelatedRecord(g, op, isRemote)
    ELSE IF op.op = "addToRelatedRecords"
    THEN IF isRemote THEN Raise(g) ELSE addToRelatedRecords(g, op)
    ELSE IF op.op = "removeFromRelatedRecords"
    THEN IF isRemote THEN Raise(g) ELSE removeFromRelatedRecords(g, op)
    ELSE IF op.op = "replaceRelatedRecords"
    THEN replaceRelatedRecords(g, op, isRemote)
    ELSE Raise(g)

\* Graph.update, lines 320-323: the edge is looked up, and so created, by the assertion
assertNotImplicit(g, op) ==
    IF isImplicit(Edge(g, op.record, op.field)) THEN Raise(g) ELSE g

\* the switch is reached unless the assertion raised
applyUnlessRaised(g, op, isRemote) ==
    IF g.err THEN g ELSE applyOperation(g, op, isRemote)

\* Graph.update as it would be if only mergeIdentifiers were exempt from the
\* assertion on implicit edges
updateExemptingMergeOnly(g, op, isRemote) ==
    IF op.op = "mergeIdentifiers"
    THEN applyOperation(g, op, isRemote)
    ELSE applyUnlessRaised(assertNotImplicit(get(g, op.record, op.field), op),
                           op, isRemote)

\* Graph.update
update(g, op, isRemote) ==
    IF op.op \in {"deleteRecord", "mergeIdentifiers"}
    THEN applyOperation(g, op, isRemote)
    ELSE applyUnlessRaised(assertNotImplicit(get(g, op.record, op.field), op),
                           op, isRemote)

-----------------------------------------------------------------------------
(* Inputs *)

\* the lists without duplicates over the identifiers of one type
ListsOver(t) ==
    IF t = "A" THEN {<<>>, <<"a1">>}
    ELSE {<<>>, <<"b1">>, <<"b2">>, <<"b1", "b2">>, <<"b2", "b1">>}

TargetsOf(r) == IdsOfType(DefinitionOf(r, KeyOf(r)).type)
KindOf(r) == DefinitionOf(r, KeyOf(r)).kind

NoLast == [op |-> "none", id |-> Null, silent |-> FALSE, result |-> FALSE, notes |-> <<>>]
Did(name, id) == [NoLast EXCEPT !.op = name, !.id = id]

NoUpdates == [belongsTo |-> <<>>, hasMany |-> <<>>, deletions |-> <<>>]
NoTransaction == [open |-> FALSE, edges |-> {}]
\* no remove is running
NotUnloading == [running |-> FALSE]

-----------------------------------------------------------------------------
(* The state after construction *)

\* Graph's constructor
Constructed ==
    /\ identifiers = {}
    /\ rels = [key \in Keys |-> NoEdge]
    /\ metaCache = {}
    /\ upgrades = [d \in DefinitionKeys |-> 0]
    /\ willSyncRemote = FALSE
    /\ willSyncLocal = FALSE
    /\ pushedUpdates = NoUpdates
    /\ updatedRelationships = <<>>
    /\ transaction = NoTransaction
    /\ removing = Null
    /\ unloading = NotUnloading
    /\ isDestroyed = FALSE
    /\ coalesceCbs = 0
    /\ syncCbs = 0
    /\ pc = "idle"
    /\ batch = NoUpdates
    /\ applied = <<>>
    /\ pushed = <<>>
    /\ taken = <<>>
    /\ updated = <<>>
    /\ resynced = <<>>
    /\ calls = 0
    /\ last = NoLast

Init ==
    /\ schema \in Schemas
    /\ newIds \in SUBSET Ids
    /\ budget = MaxCalls
    /\ Constructed

\* the handler's result g becomes the next state of the Graph fields
Commit(g) ==
    /\ identifiers' = g.ids
    /\ rels' = g.rel
    /\ metaCache' = g.meta
    /\ upgrades' = g.upgr
    /\ transaction' = g.txn
    /\ updatedRelationships' = g.upd
    /\ willSyncLocal' = g.wsl
    /\ syncCbs' = g.sync

\* the same, and the call l is recorded with the notifications it made
CommitNoted(g, l) ==
    /\ Commit(g)
    /\ last' = [l EXCEPT !.notes = g.notes]

Fixed == UNCHANGED <<schema, newIds, budget>>
Called == calls < budget /\ calls' = calls + 1
Callback == UNCHANGED calls
NoLocalFlushChange == UNCHANGED <<updated, resynced>>
NoFlushChange == UNCHANGED <<pc, batch, applied, taken>> /\ NoLocalFlushChange
NoPushChange == UNCHANGED <<willSyncRemote, pushedUpdates, coalesceCbs, pushed>>

-----------------------------------------------------------------------------
(* Graph.push *)

\* the queue push appends op to
QueueOf(op) ==
    IF op.op = "deleteRecord" THEN "deletions"
    ELSE IF op.op = "replaceRelatedRecord" THEN "belongsTo"
    ELSE DefinitionOf(op.record, op.field).kind

\* push as it would be if every push scheduled a flush
pushAlwaysSchedules(op) ==
    /\ pushedUpdates' = [pushedUpdates EXCEPT ![QueueOf(op)] = Append(@, op)]
    /\ LET g == IF op.op \in {"deleteRecord", "replaceRelatedRecord"} THEN Cur
                ELSE getDefinition(Cur, op.record, op.field)
       IN  metaCache' = g.meta /\ upgrades' = g.upgr
    /\ willSyncRemote' = TRUE
    /\ coalesceCbs' = IF isDestroyed THEN coalesceCbs ELSE coalesceCbs + 1
    /\ pushed' = Append(pushed, op)
    /\ last' = [Did("push", op.record) EXCEPT !.result = isDestroyed]
    /\ UNCHANGED <<identifiers, rels, willSyncLocal, updatedRelationships,
                   transaction, removing, unloading, isDestroyed, syncCbs>>
    /\ NoFlushChange /\ Fixed

\* Graph.push, once the queue of op is known.  getStore(this.store) raises at
\* line 307 when destroy has set the store to null: the operation is queued
\* and the flag set by then, and no callback is scheduled (last.result)
push(op) ==
    /\ pushedUpdates' = [pushedUpdates EXCEPT ![QueueOf(op)] = Append(@, op)]
    /\ LET g == IF op.op \in {"deleteRecord", "replaceRelatedRecord"} THEN Cur
                ELSE getDefinition(Cur, op.record, op.field)
       IN  metaCache' = g.meta /\ upgrades' = g.upgr
    /\ IF ~willSyncRemote
       THEN /\ willSyncRemote' = TRUE
            /\ coalesceCbs' = IF isDestroyed THEN coalesceCbs ELSE coalesceCbs + 1
       ELSE UNCHANGED <<willSyncRemote, coalesceCbs>>
    /\ pushed' = Append(pushed, op)
    /\ last' = [Did("push", op.record) EXCEPT !.result = ~willSyncRemote /\ isDestroyed]
    /\ UNCHANGED <<identifiers, rels, willSyncLocal, updatedRelationships,
                   transaction, removing, unloading, isDestroyed, syncCbs>>
    /\ NoFlushChange /\ Fixed

\* In Spec the cache pushes one operation and the 'coalesce' callback runs
\* before its next call: push reads and writes only the queues, so a push
\* commutes with the calls made before the flush, and a batch of several
\* operations changes the edges as its operations do one after another.
\* Batches of several operations are the subject of SchedSpec.
NothingPending == pushedUpdates = NoUpdates /\ pc = "idle"

PushDeleteRecord ==
    \E r \in Ids :
        /\ NothingPending /\ Called
        /\ push(Op("deleteRecord", r, KeyOf(r), Null, <<>>, 0))

PushReplaceRelatedRecord ==
    \E r \in Ids : \E v \in TargetsOf(r) \cup {Null} :
        /\ NothingPending /\ Called
        /\ KindOf(r) = "belongsTo"
        /\ push(Op("replaceRelatedRecord", r, KeyOf(r), v, <<>>, 0))

PushUpdateRelationship ==
    \E r \in Ids :
        /\ NothingPending /\ Called
        /\ KindOf(r) = "hasMany"
        /\ \E vs \in ListsOver(DefinitionOf(r, KeyOf(r)).type) :
              push(Op("updateRelationship", r, KeyOf(r), Null, vs, 0))

-----------------------------------------------------------------------------
(* Graph._flushRemoteQueue, the callback scheduled on 'coalesce' *)

\* _flushRemoteQueue as it would be if it left _willSyncRemote set
FlushRemoteBeginKeepingFlag ==
    /\ pc = "idle"
    /\ coalesceCbs > 0
    /\ coalesceCbs' = coalesceCbs - 1
    /\ IF ~willSyncRemote
       THEN /\ last' = Did("flushRemoteSkipped", Null)
            /\ UNCHANGED <<transaction, willSyncRemote, pushedUpdates, pc, batch,
                           applied, pushed, taken>>
       ELSE /\ transaction' = [open |-> TRUE, edges |-> {}]
            /\ UNCHANGED willSyncRemote
            /\ batch' = pushedUpdates
            /\ pushedUpdates' = NoUpdates
            /\ pc' = "remote"
            /\ applied' = <<>>
            /\ taken' = pushed
            /\ pushed' = <<>>
            /\ last' = Did("flushRemoteBegin", Null)
    /\ UNCHANGED <<identifiers, rels, metaCache, upgrades, willSyncLocal, updatedRelationships,
                   removing, unloading, isDestroyed, syncCbs>>
    /\ NoLocalFlushChange /\ Callback /\ Fixed

FlushRemoteBegin ==
    /\ pc = "idle"
    /\ coalesceCbs > 0
    /\ coalesceCbs' = coalesceCbs - 1
    /\ IF ~willSyncRemote
       THEN /\ last' = Did("flushRemoteSkipped", Null)
            /\ UNCHANGED <<transaction, willSyncRemote, pushedUpdates, pc, batch,
                           applied, pushed, taken>>
       ELSE /\ transaction' = [open |-> TRUE, edges |-> {}]
            /\ willSyncRemote' = FALSE
            /\ batch' = pushedUpdates
            /\ pushedUpdates' = NoUpdates
            /\ pc' = "remote"
            /\ applied' = <<>>
            /\ taken' = pushed
            /\ pushed' = <<>>
            /\ last' = Did("flushRemoteBegin", Null)
    /\ UNCHANGED <<identifiers, rels, metaCache, upgrades, willSyncLocal, updatedRelationships,
                   removing, unloading, isDestroyed, syncCbs>>
    /\ NoLocalFlushChange /\ Callback /\ Fixed

\* the loops of _flushRemoteQueue as they would be with the to-many loop first
NextQueueToManyFirst ==
    IF batch.hasMany # <<>> THEN "hasMany"
    ELSE IF batch.deletions # <<>> THEN "deletions"
    ELSE "belongsTo"

\* the queue the three loops of _flushRemoteQueue take the next operation from
NextQueue ==
    IF batch.deletions # <<>> THEN "deletions"
    ELSE IF batch.hasMany # <<>> THEN "hasMany"
    ELSE "belongsTo"

\* one iteration of the loops of _flushRemoteQueue.  When update raises, the
\* error ends the callback there: the rest of the batch is dropped with its
\* frame and _finalize is not reached, so the transaction stays as it is.
FlushRemoteStep ==
    /\ pc = "remote"
    /\ batch # NoUpdates
    /\ LET g == update(Cur, batch[NextQueue][1], TRUE)
       IN /\ Commit(g)
          /\ IF g.err
             THEN /\ batch' = NoUpdates
                  /\ applied' = <<>>
                  /\ taken' = <<>>
                  /\ pc' = "idle"
                  /\ last' = Did("flushRemoteRaised", batch[NextQueue][1].record)
             ELSE /\ batch' = [batch EXCEPT ![NextQueue] = Tail(@)]
                  /\ applied' = Append(applied, batch[NextQueue][1])
                  /\ last' = Did("flushRemoteStep", batch[NextQueue][1].record)
                  /\ UNCHANGED <<pc, taken>>
    /\ UNCHANGED <<removing, unloading, isDestroyed>>
    /\ NoPushChange /\ NoLocalFlushChange /\ Callback /\ Fixed

\* Graph._finalize
finalize(g) ==
    IF g.txn.open
    THEN [g EXCEPT !.rel = [key \in Keys |->
                              IF key \in g.txn.edges /\ g.rel[key].kind # "none"
                              THEN [g.rel[key] EXCEPT !.transactionRef = 0]
                              ELSE g.rel[key]],
                   !.txn = NoTransaction]
    ELSE g

\* the end of _flushRemoteQueue; the record of the flush (applied, taken) is
\* kept up to here and dropped with the callback's frame
FlushRemoteFinalize ==
    /\ pc = "remote"
    /\ batch = NoUpdates
    /\ Commit(finalize(Cur))
    /\ last' = Did("flushRemoteEnd", Null)
    /\ pc' = "idle"
    /\ applied' = <<>>
    /\ taken' = <<>>
    /\ UNCHANGED <<batch, removing, unloading, isDestroyed>>
    /\ NoPushChange /\ NoLocalFlushChange /\ Callback /\ Fixed

-----------------------------------------------------------------------------
(* Graph._flushLocalQueue, the callback scheduled on 'sync' *)

\* updated.forEach, line 454: a Set is visited in insertion order
RECURSIVE SyncAll(_, _)
SyncAll(g, refs) ==
    IF refs = <<>> THEN g
    ELSE SyncAll(syncRemoteToLocal(g, Head(refs)), Tail(refs))

flushLocalQueue(g) ==
    IF ~g.wsl THEN g
    ELSE SyncAll([g EXCEPT !.wsl = FALSE, !.upd = <<>>], g.upd)

FlushLocal ==
    /\ pc = "idle"
    /\ syncCbs > 0
    /\ CommitNoted(flushLocalQueue([Cur EXCEPT !.sync = @ - 1]), Did("flushLocal", Null))
    /\ UNCHANGED <<removing, unloading, isDestroyed>>
    /\ NoPushChange /\ NoFlushChange /\ Callback /\ Fixed

-----------------------------------------------------------------------------
(* Calls made by the cache between flushes *)

Idle == NothingPending /\ ~isDestroyed

Call(name, id, g) ==
    /\ Called
    /\ Commit(g)
    /\ last' = Did(name, id)
    /\ UNCHANGED <<removing, unloading, isDestroyed>>
    /\ NoPushChange /\ NoFlushChange /\ Fixed

\* Graph.get
Get ==
    \E i \in Ids : Idle /\ Call("get", i, get(Cur, i, KeyOf(i)))

\* Graph.update(op, false)
UpdateReplaceRelatedRecord ==
    \E r \in Ids : \E v \in TargetsOf(r) \cup {Null} :
        /\ Idle
        /\ KindOf(r) = "belongsTo"
        /\ Call("update", r,
                update(Cur, Op("replaceRelatedRecord", r, KeyOf(r), v, <<>>, 0), FALSE))

UpdateReplaceRelatedRecords ==
    \E r \in Ids : \E vs \in ListsOver(DefinitionOf(r, KeyOf(r)).type) :
        /\ Idle
        /\ KindOf(r) = "hasMany"
        /\ Call("update", r,
                update(Cur, Op("replaceRelatedRecords", r, KeyOf(r), Null, vs, 0), FALSE))

\* the length of the local list of (r, its field), 0 if there is no such edge
LocalLength(r) ==
    IF isHasMany(rels[<<r, KeyOf(r)>>]) THEN Len(rels[<<r, KeyOf(r)>>].localState) ELSE 0

UpdateAddToRelatedRecords ==
    \E r \in Ids : \E v \in TargetsOf(r) : \E atEnd \in BOOLEAN :
        /\ Idle
        /\ KindOf(r) = "hasMany"
        /\ Call("update", r,
                update(Cur, Op("addToRelatedRecords", r, KeyOf(r), v, <<>>,
                               IF atEnd THEN LocalLength(r) ELSE 0), FALSE))

UpdateRemoveFromRelatedRecords ==
    \E r \in Ids : \E v \in TargetsOf(r) :
        /\ Idle
        /\ KindOf(r) = "hasMany"
        /\ Call("update", r,
                update(Cur, Op("removeFromRelatedRecords", r, KeyOf(r), v, <<>>, 0), FALSE))

\* Graph.isReleasable
IsReleasable ==
    \E i \in Ids :
        /\ Idle /\ Callback
        /\ last' = [Did("isReleasable", i) EXCEPT !.result = isReleasable(Cur, i)]
        /\ UNCHANGED <<identifiers, rels, metaCache, upgrades, transaction, updatedRelationships,
                       willSyncLocal, syncCbs, removing, unloading, isDestroyed>>
        /\ NoPushChange /\ NoFlushChange /\ Fixed

\* Graph.unload
Unload ==
    \E i \in Ids : \E silenceNotifications \in BOOLEAN :
        /\ Idle /\ Called
        /\ CommitNoted(unload(Cur, i, silenceNotifications),
                       [Did("unload", i) EXCEPT !.silent = silenceNotifications])
        /\ UNCHANGED <<removing, unloading, isDestroyed>>
        /\ NoPushChange /\ NoFlushChange /\ Fixed

\* Graph.remove
Remove ==
    \E i \in Ids :
        /\ Idle
        /\ removing = Null
        /\ Call("remove", i, remove(Cur, i))

\* Graph.destroy
destroy(g) ==
    [g EXCEPT !.ids = {},
              !.rel = [key \in Keys |-> NoEdge],
              !.upd = [n \in 1..Len(@) |->
                         IF @[n].live
                         THEN DroppedRef(@[n].id, @[n].key, Edge(g, @[n].id, @[n].key))
                         ELSE @[n]]]

Destroy ==
    /\ pc = "idle"
    /\ ~isDestroyed
    /\ Called
    /\ Commit(destroy(Cur))
    /\ last' = Did("destroy", Null)
    /\ isDestroyed' = TRUE
    /\ UNCHANGED <<removing, unloading, unloading>>
    /\ NoPushChange /\ NoFlushChange /\ Fixed

-----------------------------------------------------------------------------

Next ==
    \/ PushDeleteRecord
    \/ PushReplaceRelatedRecord
    \/ PushUpdateRelationship
    \/ FlushRemoteBegin
    \/ FlushRemoteStep
    \/ FlushRemoteFinalize
    \/ FlushLocal
    \/ Get
    \/ UpdateReplaceRelatedRecord
    \/ UpdateReplaceRelatedRecords
    \/ UpdateAddToRelatedRecords
    \/ UpdateRemoveFromRelatedRecords
    \/ IsReleasable
    \/ Unload
    \/ Remove
    \/ Destroy

Spec == Init /\ [][Next]_vars

-----------------------------------------------------------------------------
(* The to-one field on its own: f on A is to-one, its inverse g on B is of  *)
(* any kind, the cache replaces to-one values locally and remotely, and it  *)
(* unloads and removes records.                                             *)

ToOneSchemas == {s \in Schemas : s.lhsKind = "belongsTo"}

ToOneInit ==
    /\ schema \in ToOneSchemas
    /\ newIds \in SUBSET Ids
    /\ budget = MaxToOneCalls
    /\ Constructed

ToOneNext ==
    \/ PushReplaceRelatedRecord
    \/ FlushRemoteBegin
    \/ FlushRemoteStep
    \/ FlushRemoteFinalize
    \/ FlushLocal
    \/ UpdateReplaceRelatedRecord
    \/ Unload
    \/ Remove

ToOneSpec == ToOneInit /\ [][ToOneNext]_vars

-----------------------------------------------------------------------------
(* What isReleasable reads: which nodes and edges exist, under any schema.  *)
(* The cache materializes edges, links and deletes through remote           *)
(* operations, unloads and removes records, and asks isReleasable in        *)
(* between.                                                                 *)

ReleaseInit ==
    /\ schema \in Schemas
    /\ newIds \in SUBSET Ids
    /\ budget = MaxReleaseCalls
    /\ Constructed

ReleaseNext ==
    \/ Get
    \/ PushReplaceRelatedRecord
    \/ PushDeleteRecord
    \/ FlushRemoteBegin
    \/ FlushRemoteStep
    \/ FlushRemoteFinalize
    \/ FlushLocal
    \/ Unload
    \/ Remove
    \/ IsReleasable

ReleaseSpec == ReleaseInit /\ [][ReleaseNext]_vars

-----------------------------------------------------------------------------
(* The update scheduler on its own: a to-many field f on A whose inverse g *)
(* on B is to-one, both synchronous, every identifier persisted.  The      *)
(* cache pushes any operations in any order, a notification handler may    *)
(* push one while a flush runs, and the scheduler runs every callback it   *)
(* was given.                                                              *)

SchedSchema ==
    [lhsKind |-> "hasMany", lhsAsync |-> FALSE,
     rhsKind |-> "belongsTo", rhsAsync |-> FALSE]

SchedInit ==
    /\ schema = SchedSchema
    /\ newIds = {}
    /\ budget = MaxCalls
    /\ Constructed

\* the operations the cache pushes
SchedOps ==
    { Op("deleteRecord", "a1", "f", Null, <<>>, 0),
      Op("updateRelationship", "a1", "f", Null, <<"b1">>, 0),
      Op("updateRelationship", "b2", "g", "a1", <<>>, 0),
      Op("replaceRelatedRecord", "b1", "g", "a1", <<>>, 0) }

Pending ==
    Len(pushedUpdates.deletions) + Len(pushedUpdates.hasMany)
        + Len(pushedUpdates.belongsTo)

SchedPush ==
    \E op \in SchedOps :
        /\ Pending < MaxPending
        /\ Len(updatedRelationships) < MaxWaiting
        /\ pc = "remote" => Pending = 0
        /\ push(op)
        /\ Callback

SchedNext ==
    \/ SchedPush
    \/ FlushRemoteBegin
    \/ FlushRemoteStep
    \/ FlushRemoteFinalize
    \/ FlushLocal

\* What the scheduler guarantees, stated on the variables that mark a
\* callback's progress: a callback it was given runs, and a flush that runs
\* goes through its loops to its end.  Under SchedNext a step of these is a
\* step of FlushRemoteBegin, FlushRemoteStep, FlushRemoteFinalize, FlushLocal.
RunsCoalesce == pc = "idle" /\ coalesceCbs > 0 /\ coalesceCbs' = coalesceCbs - 1
RunsLoop == pc = "remote" /\ batch # NoUpdates /\ batch' = [batch EXCEPT ![NextQueue] = Tail(@)]
RunsToEnd == pc = "remote" /\ batch = NoUpdates /\ pc' = "idle"
RunsSync == pc = "idle" /\ syncCbs > 0 /\ syncCbs' = syncCbs - 1

SchedSpec ==
    /\ SchedInit
    /\ [][SchedNext]_vars
    /\ WF_coalesceCbs(RunsCoalesce)
    /\ WF_batch(RunsLoop)
    /\ WF_pc(RunsToEnd)
    /\ WF_syncCbs(RunsSync)

-----------------------------------------------------------------------------
(* The same scheduler when the cache also pushes an operation that update   *)
(* refuses in remote mode.  push looks at the operation only to choose its  *)
(* queue (296-304): addToRelatedRecords on a to-many field is queued like   *)
(* any other, and update(op, true) raises for it (371) from inside the      *)
(* loops of _flushRemoteQueue.                                              *)

\* the operations the cache pushes: those of SchedOps and one that update
\* refuses in remote mode
RefuseOps ==
    SchedOps \cup { Op("addToRelatedRecords", "a1", "f", "b1", <<>>, 0) }

RefuseInit ==
    /\ schema = SchedSchema
    /\ newIds = {}
    /\ budget = MaxRefuseCalls
    /\ Constructed

RefusePush ==
    \E op \in RefuseOps :
        /\ pc = "remote" => Pending = 0
        /\ push(op)
        /\ Called

RefuseNext ==
    \/ RefusePush
    \/ FlushRemoteBegin
    \/ FlushRemoteStep
    \/ FlushRemoteFinalize
    \/ FlushLocal

\* the scheduler runs every callback it was given; a flush whose next
\* operation is refused cannot stay in its loops, so it ends with the error
RefuseSpec ==
    /\ RefuseInit
    /\ [][RefuseNext]_vars
    /\ WF_coalesceCbs(RunsCoalesce)
    /\ WF_batch(RunsLoop)
    /\ WF_pc(RunsToEnd)
    /\ WF_syncCbs(RunsSync)

-----------------------------------------------------------------------------
(* The update scheduler: ordering, coalescing, delivery, the transaction   *)

\* 1 for a deleteRecord, 2 for an operation on a to-many field, 3 for one on
\* a to-one field
Category(op) ==
    IF op.op = "deleteRecord" THEN 1
    ELSE IF (IF op.field = LhsKey THEN schema.lhsKind ELSE schema.rhsKind) = "hasMany"
    THEN 2
    ELSE 3

InQueues(q, op) ==
    Includes(q.deletions, op) \/ Includes(q.hasMany, op) \/ Includes(q.belongsTo, op)

Count(s, x) == Cardinality({n \in 1..Len(s) : s[n] = x})

\* C1: within one execution of _flushRemoteQueue the operations are applied
\* deletions first, then the to-many operations, then the to-one operations,
\* whatever the order they were pushed in: no operation is applied after one
\* of a later category, and none that still waits in the batch is of an
\* earlier category than one already applied.
C1_DeletionsThenToManyThenToOne ==
    /\ \A m, n \in 1..Len(applied) :
          m < n => Category(applied[m]) <= Category(applied[n])
    /\ \A n \in 1..Len(applied) : \A op \in SchedOps :
          InQueues(batch, op) => Category(applied[n]) <= Category(op)

\* a hasMany update of a1.f, a to-one operation and then the deleteRecord of
\* a1 were pushed in this order, and the flush applied them in the opposite
\* order
C1_Witness ==
    /\ pc = "remote"
    /\ batch = NoUpdates
    /\ taken = << Op("updateRelationship", "a1", "f", Null, <<"b1">>, 0),
                  Op("replaceRelatedRecord", "b1", "g", "a1", <<>>, 0),
                  Op("deleteRecord", "a1", "f", Null, <<>>, 0) >>
    /\ applied = << Op("deleteRecord", "a1", "f", Null, <<>>, 0),
                    Op("updateRelationship", "a1", "f", Null, <<"b1">>, 0),
                    Op("replaceRelatedRecord", "b1", "g", "a1", <<>>, 0) >>

\* C2: however many operations are pushed between two executions of the
\* remote flush, one callback is outstanding on 'coalesce' exactly when at
\* least one was pushed (never two), and the one execution of the flush that
\* takes them applies every one of them, each once.
C2_OneFlushPerBatch ==
    /\ coalesceCbs = (IF pushed = <<>> THEN 0 ELSE 1)
    /\ willSyncRemote = (pushed # <<>>)
    /\ (pc = "remote" /\ batch = NoUpdates) =>
          \A op \in SchedOps : Count(applied, op) = Count(taken, op)

\* three pushes, the second and third of the same operation, were taken by
\* one execution of the flush, which has applied all three
C2_Witness ==
    /\ pc = "remote"
    /\ batch = NoUpdates
    /\ Len(taken) = 3
    /\ taken[2] = taken[3]
    /\ Len(applied) = 3
    /\ last.op = "flushRemoteStep"

\* C3: an operation pushed is never left in a pending queue with no flush
\* scheduled; an operation a running flush holds in its batch is, after every
\* step of that flush, either applied or still held (none is dropped); and,
\* the scheduler running every callback it was given, every operation pushed
\* is eventually applied.
C3_EveryPushIsApplied ==
    /\ [](pushedUpdates # NoUpdates => (willSyncRemote /\ coalesceCbs = 1))
    /\ [](\A op \in RefuseOps : Includes(pushed, op) => InQueues(pushedUpdates, op))
    /\ [][\A op \in RefuseOps :
            (pc = "remote" /\ InQueues(batch, op)) =>
                (Includes(applied', op) \/ InQueues(batch', op))]_vars
    /\ \A op \in RefuseOps : Includes(pushed, op) ~> Includes(applied, op)

Ref(key) ==
    IF rels[key].kind \in {"belongsTo", "hasMany"} THEN rels[key].transactionRef ELSE 0

\* C4: while no _flushRemoteQueue runs, _transaction is null and every
\* edge's transactionRef is 0; a running flush has its transaction open; and
\* a transactionRef above 0 is that of an edge in the open transaction of
\* the running flush.
C4_TransactionOnlyInFlush ==
    /\ pc = "idle" => (~transaction.open /\ \A key \in Keys : Ref(key) = 0)
    /\ pc = "remote" => transaction.open
    /\ \A key \in Keys :
          Ref(key) > 0 => (pc = "remote" /\ key \in transaction.edges)

-----------------------------------------------------------------------------
(* The edges: symmetry, removal, destruction, dematerialization            *)

\* every identifier an edge holds, in either layer
MemberSet(key) ==
    IF isBelongsTo(rels[key])
    THEN {rels[key].localState, rels[key].remoteState} \ {Null}
    ELSE IF isHasMany(rels[key])
    THEN rels[key].localMembers \cup rels[key].remoteMembers
            \cup Range(rels[key].localState) \cup Range(rels[key].remoteState)
    ELSE IF isImplicit(rels[key])
    THEN rels[key].localMembers \cup rels[key].remoteMembers
    ELSE {}

\* C5: whatever operations were applied, for a relationship declared on both
\* sides, b is a member of a.f exactly when a is a member of b.g.
C5_Symmetry ==
    schema.rhsKind # "implicit" =>
        \A a \in AIds : \A b \in BIds :
            (b \in MemberSet(<<a, LhsKey>>)) <=> (a \in MemberSet(<<b, RhsKey>>))

\* C6: when remove(X) has returned, no edge of any node holds X and X has
\* no edge.
C6_CleanRemove ==
    last.op = "remove" =>
        /\ \A key \in Keys : last.id \notin MemberSet(key)
        /\ ~has(Cur, last.id, KeyOf(last.id))

\* C7: once the graph is destroyed it has no node, and a flush callback that
\* fires afterwards applies nothing: it leaves the graph without node or edge.
C7_DestroyAbandonsQueuedWork ==
    isDestroyed =>
        /\ identifiers = {}
        /\ \A key \in Keys : rels[key] = NoEdge

\* the edge (x, its field) is a to-one edge that holds y in both layers
PointsAt(x, y) ==
    /\ isBelongsTo(rels[<<x, KeyOf(x)>>])
    /\ rels[<<x, KeyOf(x)>>].localState = y
    /\ rels[<<x, KeyOf(x)>>].remoteState = y

\* this step is unload(y)
Unloads(y) == last'.op = "unload" /\ last'.id = y

\* the notifications for (x, its field) among those of the call that led here
Notified(x) ==
    Cardinality({n \in 1..Len(last.notes) : last.notes[n] = <<x, KeyOf(x)>>})

\* C8: whenever an asynchronous to-one edge of x holds y in both layers and
\* y is not new, unload(y) sets hasDematerializedInverse on the edge and
\* leaves both layers at y.
C8_AsyncUnloadKeepsReference ==
    [][\A x \in Ids : \A y \in TargetsOf(x) :
          (/\ PointsAt(x, y)
           /\ DefinitionOf(x, KeyOf(x)).isAsync
           /\ ~isNew(y)
           /\ Unloads(y))
          => /\ PointsAt(x, y)'
             /\ rels'[<<x, KeyOf(x)>>].state.hasDematerializedInverse]_vars

\* C9: whenever a synchronous to-one edge of x holds y in both layers and y
\* is not new, unload(y) without silencing leaves both layers null and
\* notifies once for (x, the field).
C9_SyncUnloadClearsReference ==
    [][\A x \in Ids : \A y \in TargetsOf(x) :
          (/\ PointsAt(x, y)
           /\ ~DefinitionOf(x, KeyOf(x)).isAsync
           /\ ~isNew(y)
           /\ Unloads(y)
           /\ ~last'.silent)
          => /\ PointsAt(x, Null)'
             /\ Notified(x)' = 1]_vars

\* the inverse of x's field is asynchronous, as the schema declares it
InverseIsAsync(x) == IF x \in AIds THEN schema.rhsAsync ELSE schema.lhsAsync

\* C10: isReleasable(X) is true when X has no node; otherwise it is false
\* exactly when X is not new and a materialized edge of X has an
\* asynchronous inverse.  It changes nothing of the graph.
C10_IsReleasable ==
    /\ [](last.op = "isReleasable" =>
            (last.result <=>
               \/ last.id \notin identifiers
               \/ ~(/\ last.id \notin newIds
                    /\ \E key \in Keys :
                          /\ key[1] = last.id
                          /\ rels[key].kind # "none"
                          /\ InverseIsAsync(last.id))))
    /\ [][last'.op = "isReleasable" =>
            UNCHANGED <<identifiers, rels, metaCache, upgrades, willSyncRemote, willSyncLocal,
                        pushedUpdates, updatedRelationships, transaction, removing, unloading,
                        isDestroyed, coalesceCbs, syncCbs>>]_vars

\* a1, not new, with the one to-one edge f whose inverse is asynchronous,
\* was found not releasable
C10_Witness ==
    /\ last.op = "isReleasable" /\ last.id = "a1" /\ ~last.result
    /\ "a1" \notin newIds
    /\ isBelongsTo(rels[<<"a1", "f">>])
    /\ schema.rhsAsync

-----------------------------------------------------------------------------
(* Release gating of an identity that has only implicit edges              *)

\* x has a node whose edges are all implicit and hold no member
OnlyEmptyImplicitEdges(x) ==
    /\ x \in identifiers
    /\ isImplicit(rels[<<x, KeyOf(x)>>])
    /\ rels[<<x, KeyOf(x)>>].localMembers = {}
    /\ rels[<<x, KeyOf(x)>>].remoteMembers = {}

\* C11, as stated: an identity whose only edges are implicit edges without
\* members is releasable, new or not, whether the declared side is
\* synchronous or asynchronous.
C11_ImplicitOnlyIsReleasable ==
    (last.op = "isReleasable" /\ OnlyEmptyImplicitEdges(last.id)) => last.result

\* C11, amended: for an identity whose only edges are implicit edges without
\* members, isReleasable is true exactly when the identity is new or the
\* declared side of the relationship is synchronous.
C11_ImplicitOnlyReleasableUnlessAsync ==
    (last.op = "isReleasable" /\ OnlyEmptyImplicitEdges(last.id)) =>
        (last.result <=>
            (isNew(last.id) \/ ~DefinitionOf(last.id, KeyOf(last.id)).inverseIsAsync))

\* b1 is new, its only edge is an implicit edge without members whose
\* declared side a.f is asynchronous, and isReleasable(b1) answered true
C11_Witness ==
    /\ last.op = "isReleasable" /\ last.id = "b1" /\ last.result
    /\ OnlyEmptyImplicitEdges("b1")
    /\ isNew("b1")
    /\ schema.lhsAsync

-----------------------------------------------------------------------------
(* Graph.update with any operation in any mode.  The cache sets the graph  *)
(* up with get and with well-formed pushes, and then makes one more call,  *)
(* the last of the run: update in local mode with any operation, update    *)
(* with a merge in either mode, a push of any operation that push accepts  *)
(* (which _flushRemoteQueue hands to update in remote mode), or getData.   *)

\* Graph.getData: the edge is looked up (and so created), an implicit edge is
\* refused, and the edge's current state is projected into a payload
getData(g, identifier, propertyName) ==
    assertNotImplicit(get(g, identifier, propertyName),
                      [record |-> identifier, field |-> propertyName])

Payload(rel) ==
    IF rel.kind \in {"belongsTo", "hasMany"}
    THEN [data |-> rel.localState, hasReceivedData |-> rel.state.hasReceivedData,
          isEmpty |-> rel.state.isEmpty]
    ELSE [data |-> Null, hasReceivedData |-> FALSE, isEmpty |-> TRUE]

\* the payloads the cache builds operations from
SomeLists(t) == IF t = "A" THEN {<<>>, <<"a1">>} ELSE {<<>>, <<"b1">>, <<"b2", "b1">>}

ToOneOps(r) ==
    {Op(name, r, KeyOf(r), v, <<>>, 0) :
        name \in {"replaceRelatedRecord", "updateRelationship"},
        v \in TargetsOf(r) \cup {Null}}

ToManyOps(r) ==
    {Op(name, r, KeyOf(r), Null, vs, 0) :
        name \in {"replaceRelatedRecords", "updateRelationship"},
        vs \in SomeLists(DefinitionOf(r, KeyOf(r)).type)}
    \cup {Op(name, r, KeyOf(r), v, <<>>, 0) :
        name \in {"addToRelatedRecords", "removeFromRelatedRecords"},
        v \in TargetsOf(r)}

\* the field-level operations on r's field: those of its kind, and all of
\* them where the field is the undeclared side
FieldOps(r) ==
    (IF KindOf(r) # "hasMany" THEN ToOneOps(r) ELSE {})
    \cup (IF KindOf(r) # "belongsTo" THEN ToManyOps(r) ELSE {})

DeleteOp(r) == Op("deleteRecord", r, KeyOf(r), Null, <<>>, 0)

MergeOps(r) ==
    {Op("mergeIdentifiers", r, Null, v, <<>>, 0) : v \in IdsOfType(TypeOf(r)) \ {r}}

\* push raises for these (line 302) and enqueues nothing
PushRaises(op) ==
    /\ op.op \notin {"deleteRecord", "replaceRelatedRecord"}
    /\ KindOf(op.record) = "implicit"

\* the last call of the run
CalledLast == calls < budget /\ calls' = budget

DidUpdate(op, isRemote, g) ==
    [op |-> "updateCall", id |-> op.record, silent |-> FALSE, result |-> FALSE,
     notes |-> g.notes, call |-> op, isRemote |-> isRemote, raised |-> g.err]

\* Graph.update(op, false), called by the cache
UpdateLocal ==
    \E r \in Ids : \E op \in FieldOps(r) \cup {DeleteOp(r)} :
        /\ Idle /\ CalledLast
        /\ LET g == update(Cur, op, FALSE)
           IN Commit(g) /\ last' = DidUpdate(op, FALSE, g)
        /\ UNCHANGED <<removing, unloading, isDestroyed>>
        /\ NoPushChange /\ NoFlushChange /\ Fixed

\* Graph.update(op, isRemote) with a mergeIdentifiers operation
UpdateMerge ==
    \E r \in Ids : \E op \in MergeOps(r) : \E isRemote \in BOOLEAN :
        /\ Idle /\ CalledLast
        /\ LET g == update(Cur, op, isRemote)
           IN Commit(g) /\ last' = DidUpdate(op, isRemote, g)
        /\ UNCHANGED <<removing, unloading, isDestroyed>>
        /\ NoPushChange /\ NoFlushChange /\ Fixed

\* Graph.push of any operation push accepts
PushOperation ==
    \E r \in Ids : \E op \in FieldOps(r) \cup {DeleteOp(r)} :
        /\ NothingPending /\ CalledLast
        /\ ~PushRaises(op)
        /\ push(op)

\* Graph.getData
GetData ==
    \E i \in Ids :
        /\ Idle /\ CalledLast
        /\ LET g == getData(Cur, i, KeyOf(i))
           IN /\ Commit(g)
              /\ last' = [op |-> "getData", id |-> i, silent |-> FALSE,
                          result |-> FALSE, notes |-> g.notes, raised |-> g.err,
                          data |-> IF g.err THEN Payload(NoEdge)
                                   ELSE Payload(Edge(g, i, KeyOf(i)))]
        /\ UNCHANGED <<removing, unloading, isDestroyed>>
        /\ NoPushChange /\ NoFlushChange /\ Fixed

\* isNew does not enter the assertions of update: either no identifier is
\* new, or one of each type is
UpdateInit ==
    /\ schema \in Schemas
    /\ newIds \in {{}, {"a1", "b1"}}
    /\ budget = MaxUpdateCalls
    /\ Constructed

UpdateNext ==
    \/ Get
    \/ PushReplaceRelatedRecord
    \/ PushUpdateRelationship
    \/ GetData
    \/ UpdateLocal
    \/ UpdateMerge
    \/ PushOperation
    \/ FlushRemoteBegin
    \/ FlushRemoteStep
    \/ FlushRemoteFinalize
    \/ FlushLocal

UpdateSpec == UpdateInit /\ [][UpdateNext]_vars

-----------------------------------------------------------------------------
(* Rejections of Graph.update                                              *)

WrongMode(op, isRemote) ==
    \/ op.op \in {"updateRelationship", "deleteRecord"} /\ ~isRemote
    \/ op.op \in {"addToRelatedRecords", "removeFromRelatedRecords"} /\ isRemote

FieldLevel(op) ==
    op.op \in {"replaceRelatedRecord", "replaceRelatedRecords", "addToRelatedRecords",
               "removeFromRelatedRecords", "updateRelationship"}

\* the fields of the graph
GraphNow ==
    <<identifiers, rels, metaCache, transaction, updatedRelationships,
      willSyncLocal, syncCbs>>

GraphOf(g) == <<g.ids, g.rel, g.meta, g.txn, g.upd, g.wsl, g.sync>>

\* the graph when update raises before any handler has run: a field-level
\* operation has had its edge looked up by the first assertion, nothing else
Unhandled(op) ==
    IF FieldLevel(op) THEN GraphOf(get(Cur, op.record, op.field)) ELSE GraphOf(Cur)

\* this step is a call of update made by the cache; the operation is
\* last'.call and the mode last'.isRemote
CacheUpdates == last'.op = "updateCall"

\* this step is a call update(op, true) made by _flushRemoteQueue; the
\* operation is the next of the batch
FlushUpdates ==
    /\ pc = "remote"
    /\ batch # NoUpdates
    /\ last'.op \in {"flushRemoteStep", "flushRemoteRaised"}

FlushedOp == batch[NextQueue][1]

EitherMode(op) ==
    \/ op.op \in {"replaceRelatedRecord", "replaceRelatedRecords"}
          /\ KindOf(op.record) # "implicit"
    \/ op.op = "mergeIdentifiers"

\* C12: update raises, and the graph is as no handler had run, for
\* updateRelationship and deleteRecord in local mode and for
\* addToRelatedRecords and removeFromRelatedRecords in remote mode;
\* replaceRelatedRecord, replaceRelatedRecords (on a declared field) and
\* mergeIdentifiers are not refused in either mode.
C12_WrongModeIsRejected ==
    [][/\ CacheUpdates =>
            /\ WrongMode(last'.call, last'.isRemote) =>
                  (last'.raised /\ GraphNow' = Unhandled(last'.call))
            /\ EitherMode(last'.call) => ~last'.raised
       /\ FlushUpdates =>
            /\ WrongMode(FlushedOp, TRUE) =>
                  (last'.op = "flushRemoteRaised" /\ GraphNow' = Unhandled(FlushedOp))
            /\ EitherMode(FlushedOp) => last'.op = "flushRemoteStep"]_vars

\* update(updateRelationship a1.f := <<>>, false) raised while a1.f held b1
\* in its remote state, and a1.f still holds it
C12_Witness ==
    /\ last.op = "updateCall"
    /\ last.call = Op("updateRelationship", "a1", "f", Null, <<>>, 0)
    /\ ~last.isRemote
    /\ last.raised
    /\ isHasMany(rels[<<"a1", "f">>])
    /\ rels[<<"a1", "f">>].remoteState = <<"b1">>

\* C13: a field-level operation whose (record, field) is an implicit edge
\* makes update raise with the graph as no handler had run, in either mode;
\* getData raises for an implicit edge; deleteRecord (in remote mode) and
\* mergeIdentifiers are carried out for a record whose edge is implicit.
C13_ImplicitEdgeIsRejected ==
    [][/\ (CacheUpdates /\ KindOf(last'.call.record) = "implicit") =>
            /\ FieldLevel(last'.call) =>
                  (last'.raised /\ GraphNow' = Unhandled(last'.call))
            /\ last'.call.op = "mergeIdentifiers" => ~last'.raised
       /\ (FlushUpdates /\ KindOf(FlushedOp.record) = "implicit") =>
            /\ FieldLevel(FlushedOp) =>
                  (last'.op = "flushRemoteRaised" /\ GraphNow' = Unhandled(FlushedOp))
            /\ FlushedOp.op = "deleteRecord" =>
                  (last'.op = "flushRemoteStep" /\ FlushedOp.record \notin identifiers')
       /\ last'.op = "getData" =>
            (last'.raised <=> KindOf(last'.id) = "implicit")]_vars

\* update(replaceRelatedRecord b1.g := a1, true) was refused in a flush while
\* b1's implicit edge held a1, and it still holds it
C13_Witness ==
    /\ last.op = "flushRemoteRaised" /\ last.id = "b1"
    /\ isImplicit(rels[<<"b1", "g">>])
    /\ "a1" \in rels[<<"b1", "g">>].remoteMembers
    /\ transaction.open

-----------------------------------------------------------------------------
(* Graph.remove step by step.  unload notifies, and a handler that is       *)
(* notified may call remove again while the first remove has not returned: *)
(* it runs inside unload, at the notification it is given, with the rest   *)
(* of unload still to come.  pc is "remove" while the first remove runs    *)
(* and "handler" while a handler that calls remove has the control.  The   *)
(* assertion of the second call raises into the handler; the handler       *)
(* either deals with the error and unload goes on, or the error leaves the *)
(* handler and with it unload and the first remove, whose remaining lines  *)
(* are then not reached.  unloading keeps the graph on which line 283      *)
(* called unload and the notifications made so far: a re-entrant remove    *)
(* changes nothing, so unload as far as a later notification is unload of  *)
(* that graph as far as that notification.                                 *)

\* this.unload(identifier), line 283, left at notification n by its handler
unloadTo(g, identifier, n) == unload([g EXCEPT !.stop = n], identifier, FALSE)

\* Graph.remove, lines 281-282
RemoveEnter ==
    \E i \in Ids :
        /\ Idle /\ Called
        /\ IF removing # Null
           THEN /\ last' = Did("removeRaised", i)
                /\ UNCHANGED <<removing, unloading, pc>>
           ELSE /\ removing' = i
                /\ unloading' = [running |-> TRUE, from |-> Cur, seen |-> 0]
                /\ pc' = "remove"
                /\ last' = Did("removeEnter", i)
        /\ UNCHANGED <<identifiers, rels, metaCache, upgrades, transaction,
                       updatedRelationships, willSyncLocal, syncCbs>>
        /\ UNCHANGED <<isDestroyed, batch, applied, taken>>
        /\ NoPushChange /\ NoLocalFlushChange /\ Fixed

\* Graph.remove, line 283: unload runs on to a notification whose handler
\* calls remove
RemoveNotify ==
    /\ pc = "remove"
    /\ \E n \in (unloading.seen + 1)..Len(unload(unloading.from, removing, FALSE).notes) :
          /\ CommitNoted(unloadTo(unloading.from, removing, n),
                         Did("removeNotify", removing))
          /\ unloading' = [unloading EXCEPT !.seen = n]
    /\ pc' = "handler"
    /\ UNCHANGED <<removing, isDestroyed, batch, applied, taken>>
    /\ NoPushChange /\ NoLocalFlushChange /\ Callback /\ Fixed

\* Graph.remove, line 281, called by the handler: the assertion raises
RemoveReenter ==
    \E j \in Ids : \E handled \in BOOLEAN :
        /\ pc = "handler"
        /\ last' = [Did("removeRaised", j) EXCEPT !.result = handled]
        /\ pc' = IF handled THEN "remove" ELSE "idle"
        /\ unloading' = IF handled THEN unloading ELSE NotUnloading
        /\ UNCHANGED <<identifiers, rels, metaCache, upgrades, transaction, updatedRelationships,
                       willSyncLocal, syncCbs, removing, isDestroyed, batch, applied,
                       taken>>
        /\ NoPushChange /\ NoLocalFlushChange /\ Callback /\ Fixed

\* Graph.remove, lines 283-285: unload runs to its end, no further handler
\* calling remove, and the node is deleted
RemoveLeave ==
    /\ pc = "remove"
    /\ CommitNoted(DeleteNode(unload(unloading.from, removing, FALSE), removing),
                   Did("remove", removing))
    /\ removing' = Null
    /\ unloading' = NotUnloading
    /\ pc' = "idle"
    /\ UNCHANGED <<isDestroyed, batch, applied, taken>>
    /\ NoPushChange /\ NoLocalFlushChange /\ Callback /\ Fixed

RemoveInit ==
    /\ schema \in Schemas
    /\ newIds \in SUBSET Ids
    /\ budget = MaxRemoveCalls
    /\ Constructed

RemoveNext ==
    \/ Get
    \/ PushReplaceRelatedRecord
    \/ PushUpdateRelationship
    \/ FlushRemoteBegin
    \/ FlushRemoteStep
    \/ FlushRemoteFinalize
    \/ FlushLocal
    \/ RemoveEnter
    \/ RemoveNotify
    \/ RemoveReenter
    \/ RemoveLeave

RemoveSpec == RemoveInit /\ [][RemoveNext]_vars

\* C14: a remove called while _removing is set raises and changes nothing; a
\* remove that is admitted unloads the record, deletes its node and leaves
\* _removing null when it returns; _removing is null whenever no remove is
\* executing.
C14_SingleRemovalInFlight ==
    /\ [](pc \notin {"remove", "handler"} => removing = Null)
    /\ [][/\ (last'.op = "removeRaised") =>
               (removing # Null /\ GraphNow' = GraphNow /\ removing' = removing)
          /\ (last'.op = "removeEnter") =>
               (removing = Null /\ removing' = last'.id /\ GraphNow' = GraphNow)
          /\ (last'.op = "remove") =>
               (/\ last'.id \notin identifiers'
                /\ GraphNow' = GraphOf(DeleteNode(unload(unloading.from, last'.id, FALSE),
                                                  last'.id))
                /\ removing' = Null)]_vars

-----------------------------------------------------------------------------
(* The node registry: has and get                                          *)

\* Graph.has
Has ==
    \E i \in Ids :
        /\ Idle /\ Called
        /\ last' = [Did("has", i) EXCEPT !.result = has(Cur, i, KeyOf(i))]
        /\ UNCHANGED <<identifiers, rels, metaCache, upgrades, transaction, updatedRelationships,
                       willSyncLocal, syncCbs, removing, unloading, isDestroyed>>
        /\ NoPushChange /\ NoFlushChange /\ Fixed

LookupInit ==
    /\ schema \in Schemas
    /\ newIds \in SUBSET Ids
    /\ budget = MaxLookupCalls
    /\ Constructed

LookupNext ==
    \/ Has
    \/ Get
    \/ PushReplaceRelatedRecord
    \/ PushDeleteRecord
    \/ FlushRemoteBegin
    \/ FlushRemoteStep
    \/ FlushRemoteFinalize
    \/ FlushLocal
    \/ Unload
    \/ Remove

LookupSpec == LookupInit /\ [][LookupNext]_vars

\* an edge is materialized for x's field
Materialized(x) == rels[<<x, KeyOf(x)>>].kind # "none"

\* C15: has changes nothing and answers whether the edge is materialized;
\* get leaves the graph as it is when the edge is materialized, and otherwise
\* creates the node if need be and one empty edge of the kind of the
\* definition, leaving every other node and edge as it was; an identifier
\* without a node has no edge.
C15_HasAndGet ==
    /\ [](\A x \in Ids : Materialized(x) => x \in identifiers)
    /\ [][/\ last'.op = "has" =>
               /\ GraphNow' = GraphNow
               /\ last'.result <=> Materialized(last'.id)
          /\ last'.op = "get" =>
               IF Materialized(last'.id)
               THEN GraphNow' = GraphNow
               ELSE /\ identifiers' = identifiers \cup {last'.id}
                    /\ rels' = [rels EXCEPT ![<<last'.id, KeyOf(last'.id)>>] =
                                  createEdge(KindOf(last'.id))]
                    /\ UNCHANGED <<transaction, updatedRelationships, willSyncLocal,
                                   syncCbs>>]_vars

\* get(a1, f) was called while a1.f held b1, and a1.f holds it as before
C15_Witness ==
    /\ last.op = "get" /\ last.id = "a1"
    /\ isBelongsTo(rels[<<"a1", "f">>])
    /\ rels[<<"a1", "f">>].remoteState = "b1"


-----------------------------------------------------------------------------
(* Definition resolution: the cache asks for definitions and edges, pushes  *)
(* and applies operations, and destroys the graph.                          *)

\* Graph.getDefinition, called by the cache
GetDefinition ==
    \E i \in Ids : Idle /\ Call("getDefinition", i, getDefinition(Cur, i, KeyOf(i)))

DefinitionInit ==
    /\ schema \in Schemas
    /\ newIds \in SUBSET Ids
    /\ budget = MaxDefinitionCalls
    /\ Constructed

DefinitionNext ==
    \/ GetDefinition
    \/ Get
    \/ PushReplaceRelatedRecord
    \/ PushUpdateRelationship
    \/ FlushRemoteBegin
    \/ FlushRemoteStep
    \/ FlushRemoteFinalize
    \/ FlushLocal
    \/ UpdateReplaceRelatedRecord
    \/ UpdateAddToRelatedRecords
    \/ Destroy

DefinitionSpec == DefinitionInit /\ [][DefinitionNext]_vars

\* C16: definition resolution is idempotent.  upgradeDefinition has run
\* exactly once for every (type, field) that _metaCache holds and never for
\* any other, and _metaCache never loses a definition: every getDefinition
\* after the first answers from the cache, whatever get, getDefinition, push
\* and update calls were made.
C16_ResolvedOnce ==
    /\ [](\A d \in DefinitionKeys : upgrades[d] = IF d \in metaCache THEN 1 ELSE 0)
    /\ [][metaCache \subseteq metaCache']_vars

\* getDefinition was called for a1.f after get had created that edge, and
\* with it resolved the definition
C16_Witness ==
    /\ last.op = "getDefinition" /\ last.id = "a1"
    /\ rels[<<"a1", "f">>].kind # "none"
    /\ upgrades[<<"A", "f">>] = 1

-----------------------------------------------------------------------------
(* Batches: the cache pushes payloads for to-many fields, several of them   *)
(* before the 'coalesce' callback runs.                                     *)

BatchSchemas == {s \in Schemas : "hasMany" \in {s.lhsKind, s.rhsKind}}

BatchInit ==
    /\ schema \in BatchSchemas
    /\ newIds = {}
    /\ budget = MaxBatchCalls
    /\ Constructed

\* Graph.push of an updateRelationship for a to-many field, also while
\* earlier pushes wait for the flush
BatchPush ==
    \E r \in Ids : \E vs \in ListsOver(DefinitionOf(r, KeyOf(r)).type) :
        /\ pc = "idle" /\ ~isDestroyed /\ Called
        /\ KindOf(r) = "hasMany"
        /\ Pending < MaxPending
        /\ push(Op("updateRelationship", r, KeyOf(r), Null, vs, 0))

BatchNext ==
    \/ BatchPush
    \/ FlushRemoteBegin
    \/ FlushRemoteStep
    \/ FlushRemoteFinalize
    \/ FlushLocal

BatchSpec == BatchInit /\ [][BatchNext]_vars

\* the operations of s are one or more updateRelationship operations, all
\* for the same field of the same record
SameField(s) ==
    /\ s # <<>>
    /\ \A n \in 1..Len(s) :
          /\ s[n].op = "updateRelationship"
          /\ s[n].record = s[1].record /\ s[n].field = s[1].field

\* C17: operations for the same to-many field are applied in push order and
\* each replaces the whole remote state.  While operations wait, exactly one
\* 'coalesce' callback is scheduled for them, however many were pushed; the
\* flush takes all of them; and when a flush that took only
\* updateRelationship operations for one to-many field ends, the remote
\* state of that edge is the payload of the operation pushed last, and no
\* further flush is scheduled.
C17_LastPayloadWins ==
    /\ [](pc = "idle" =>
            coalesceCbs = IF pushedUpdates = NoUpdates THEN 0 ELSE 1)
    /\ [][/\ last'.op = "flushRemoteBegin" => taken' = pushed /\ pushedUpdates' = NoUpdates
          /\ (last'.op = "flushRemoteEnd" /\ SameField(taken)) =>
                LET op == taken[Len(taken)]
                IN /\ rels'[<<op.record, op.field>>].remoteState = op.values
                   /\ rels'[<<op.record, op.field>>].remoteMembers = Range(op.values)
                   /\ coalesceCbs' = 0]_vars

\* a flush has applied three payloads pushed for a1.f, the first [b1, b2]
\* and the last [b2], and a1.f's remote state is [b2]
C17_Witness ==
    /\ pc = "remote" /\ batch = NoUpdates
    /\ Len(taken) = 3 /\ SameField(taken)
    /\ taken[1].record = "a1"
    /\ taken[1].values = <<"b1", "b2">>
    /\ taken[3].values = <<"b2">>
    /\ rels[<<"a1", "f">>].remoteState = <<"b2">>

-----------------------------------------------------------------------------
(* A push made while _flushRemoteQueue runs *)

CountIn(q, op) == Count(q.deletions, op) + Count(q.hasMany, op) + Count(q.belongsTo, op)

\* C18: a push made while _flushRemoteQueue is executing is not applied by
\* the running flush.  It leaves the batch being iterated, what has been
\* applied and the edges as they are, it is appended to the pending queues,
\* which the flush emptied when it began, and the first such push schedules
\* a new callback.  The running flush applies exactly the operations it took
\* when it began, and the operations pushed since wait in the pending queues
\* until the next flush takes them.
C18_ReentrantPushWaits ==
    /\ [][(pc = "remote" /\ last'.op = "push") =>
            /\ UNCHANGED <<batch, applied, taken, pc, identifiers, rels, transaction>>
            /\ \E op \in SchedOps :
                  /\ pushed' = Append(pushed, op)
                  /\ pushedUpdates' = [pushedUpdates EXCEPT ![QueueOf(op)] = Append(@, op)]
            /\ pushed = <<>> =>
                  (pushedUpdates = NoUpdates /\ willSyncRemote' /\ coalesceCbs' = coalesceCbs + 1)]_vars
    /\ [](pc = "remote" =>
            \A op \in SchedOps :
                /\ Count(applied, op) + CountIn(batch, op) = Count(taken, op)
                /\ CountIn(pushedUpdates, op) = Count(pushed, op))
    /\ [][last'.op = "flushRemoteBegin" =>
            (taken' = pushed /\ batch' = pushedUpdates /\ applied' = <<>>)]_vars

\* the running flush has gone through the two operations it took, and the
\* deleteRecord pushed while it ran has not been applied: it waits in the
\* pending queues with a callback scheduled for it
C18_Witness ==
    /\ pc = "remote"
    /\ batch = NoUpdates
    /\ Len(taken) = 2 /\ Len(applied) = 2
    /\ pushed = << Op("deleteRecord", "a1", "f", Null, <<>>, 0) >>
    /\ ~Includes(applied, Op("deleteRecord", "a1", "f", Null, <<>>, 0))
    /\ pushedUpdates.deletions = pushed
    /\ coalesceCbs = 1
    /\ identifiers # {}

-----------------------------------------------------------------------------
(* Deletion: the cache links records remotely and locally, on to-one and on *)
(* to-many fields, and pushes deleteRecord for them.                        *)

DeleteInit ==
    /\ schema \in Schemas
    /\ newIds = {}
    /\ budget = MaxDeleteCalls
    /\ Constructed

DeleteNext ==
    \/ PushDeleteRecord
    \/ PushReplaceRelatedRecord
    \/ PushUpdateRelationship
    \/ FlushRemoteBegin
    \/ FlushRemoteStep
    \/ FlushRemoteFinalize
    \/ FlushLocal
    \/ UpdateReplaceRelatedRecord
    \/ UpdateAddToRelatedRecords

DeleteSpec == DeleteInit /\ [][DeleteNext]_vars

\* this step is the flush applying a deleteRecord
AppliesDelete ==
    /\ pc = "remote" /\ batch.deletions # <<>>
    /\ last'.op = "flushRemoteStep"

\* C19: when a flush has applied deleteRecord for X, X has no node and no
\* edge (has(X, f) is false for every f), and every identifier that an edge
\* of X held, locally or remotely, no longer holds X in its inverse edge, in
\* either layer, whether the fields are synchronous or asynchronous.
C19_DeleteRemovesEveryReference ==
    [][AppliesDelete =>
          LET x == batch.deletions[1].record
          IN /\ x \notin identifiers'
             /\ rels'[<<x, KeyOf(x)>>] = NoEdge
             /\ \A y \in MemberSet(<<x, KeyOf(x)>>) :
                   x \notin MemberSet(<<y, KeyOf(y)>>)']_vars

\* a1 was deleted while its asynchronous to-many edge, still waiting for its
\* local sync, held b1 remotely: a1 has no node, and b1's edge g, which is
\* asynchronous too and still materialized, does not hold a1
C19_Witness ==
    /\ last.op = "flushRemoteStep" /\ last.id = "a1"
    /\ applied = << Op("deleteRecord", "a1", "f", Null, <<>>, 0) >>
    /\ "a1" \notin identifiers
    /\ schema.lhsAsync /\ schema.rhsAsync
    /\ \E ref \in Range(updatedRelationships) :
          /\ ~ref.live /\ ref.id = "a1"
          /\ Includes(ref.remoteState, "b1")
    /\ rels[<<"b1", "g">>].kind \in {"belongsTo", "hasMany"}
    /\ "a1" \notin MemberSet(<<"b1", "g">>)

-----------------------------------------------------------------------------
(* Unloading: the cache links records remotely and locally and unloads      *)
(* them; a1 or b1 may be new.                                               *)

UnloadInit ==
    /\ schema \in Schemas
    /\ newIds \in {{}, {"a1"}, {"b1"}}
    /\ budget = MaxUnloadCalls
    /\ Constructed

UnloadNext ==
    \/ PushReplaceRelatedRecord
    \/ PushUpdateRelationship
    \/ FlushRemoteBegin
    \/ FlushRemoteStep
    \/ FlushRemoteFinalize
    \/ FlushLocal
    \/ UpdateReplaceRelatedRecord
    \/ Unload

UnloadSpec == UnloadInit /\ [][UnloadNext]_vars

\* the edge holds nothing: both layers and both membership sets are empty
IsCleared(rel) ==
    IF isBelongsTo(rel) THEN rel.localState = Null /\ rel.remoteState = Null
    ELSE /\ rel.localState = <<>> /\ rel.remoteState = <<>>
         /\ rel.localMembers = {} /\ rel.remoteMembers = {}

\* the inverse of x's field is declared and synchronous
InverseIsDeclaredAndSync(x) ==
    /\ ~DefinitionOf(x, KeyOf(x)).inverseIsImplicit
    /\ ~DefinitionOf(x, KeyOf(x)).inverseIsAsync

\* what unload leaves alone: the registry, and the slot of an edge that is
\* not materialized; an implicit edge of x is set to undefined, and a get
\* creates it again
UnloadKeepsNodeDropsImplicit(x) ==
    /\ identifiers' = identifiers
    /\ ~Materialized(x) => ~Materialized(x)'
    /\ isImplicit(rels[<<x, KeyOf(x)>>]) =>
          /\ ~Materialized(x)'
          /\ Edge(get(Cur, x, KeyOf(x)), x, KeyOf(x))' = createImplicitEdge

\* x's edge is declared (to-one or to-many)
IsDeclaredEdge(x) == rels[<<x, KeyOf(x)>>].kind \in {"belongsTo", "hasMany"}

\* C20, as stated: after unload(X), X's node is still registered, every
\* implicit edge of X is undefined, and every non-implicit edge of X is
\* still materialized and holds nothing in either layer.
C20_UnloadClearsDeclaredEdges ==
    [][\A x \in Ids : Unloads(x) =>
          /\ UnloadKeepsNodeDropsImplicit(x)
          /\ IsDeclaredEdge(x) =>
                /\ rels'[<<x, KeyOf(x)>>].kind = rels[<<x, KeyOf(x)>>].kind
                /\ IsCleared(rels'[<<x, KeyOf(x)>>])]_vars

\* C20, amended: unload(X) leaves the registry as it is; every implicit edge
\* of X is undefined afterwards and a later get creates it again, empty; a
\* non-implicit edge of X stays materialized, and it is marked stale and
\* holds nothing in either layer when its inverse is declared and
\* synchronous, and is left exactly as it was when its inverse is implicit
\* or asynchronous.
C20_UnloadClearsWhenInverseIsSync ==
    [][\A x \in Ids : Unloads(x) =>
          /\ UnloadKeepsNodeDropsImplicit(x)
          /\ IsDeclaredEdge(x) =>
                IF InverseIsDeclaredAndSync(x)
                THEN /\ rels'[<<x, KeyOf(x)>>].kind = rels[<<x, KeyOf(x)>>].kind
                     /\ IsCleared(rels'[<<x, KeyOf(x)>>])
                     /\ rels'[<<x, KeyOf(x)>>].state.isStale
                ELSE rels'[<<x, KeyOf(x)>>] = rels[<<x, KeyOf(x)>>]]_vars

\* a1 was unloaded: it has its node, its to-one edge f, whose inverse is
\* declared and synchronous, is materialized, stale and empty, and b1, which
\* it held, has lost a1
C20_Witness ==
    /\ last.op = "unload" /\ last.id = "a1"
    /\ "a1" \in identifiers
    /\ InverseIsDeclaredAndSync("a1")
    /\ isBelongsTo(rels[<<"a1", "f">>])
    /\ rels[<<"a1", "f">>].state.isStale
    /\ IsCleared(rels[<<"a1", "f">>])
    /\ <<"b1", "g">> \in Range(last.notes)

-----------------------------------------------------------------------------
(* The notification of a to-one inverse edge when a record is unloaded      *)

\* unload(x) notifies y's edge of x's dematerialization: x's edge is declared,
\* so is its inverse, x's edge holds y, and y's edge is a materialized to-one
\* edge (destroyRelationship 498-507, notifyInverseOfDematerialization 535-540)
NotifiesToOne(x, y) ==
    /\ Unloads(x)
    /\ x \in identifiers
    /\ IsDeclaredEdge(x)
    /\ ~DefinitionOf(x, KeyOf(x)).inverseIsImplicit
    /\ y \in MemberSet(<<x, KeyOf(x)>>)
    /\ isBelongsTo(rels[<<y, KeyOf(y)>>])

\* C21: when x is dematerialized and the materialized to-one inverse edge of
\* y is notified, then, if the edge does not point locally at a different
\* identifier and the relationship is synchronous or x is new, neither layer
\* of the edge holds x afterwards; and if the edge points locally at a
\* different identifier, it is left as it was.
C21_ToOneInverseIsCleared ==
    [][\A x \in Ids : \A y \in TargetsOf(x) :
          NotifiesToOne(x, y) =>
             IF rels[<<y, KeyOf(y)>>].localState \in {Null, x}
             THEN (~DefinitionOf(y, KeyOf(y)).isAsync \/ isNew(x)) =>
                     /\ rels'[<<y, KeyOf(y)>>].localState # x
                     /\ rels'[<<y, KeyOf(y)>>].remoteState # x
             ELSE rels'[<<y, KeyOf(y)>>] = rels[<<y, KeyOf(y)>>]]_vars

-----------------------------------------------------------------------------
(* Graph._flushLocalQueue edge by edge.  syncRemoteToLocal notifies, and a  *)
(* handler that is notified may have an operation schedule an edge for a    *)
(* local sync while the flush has not returned: pc is "local" from line 451 *)
(* to the end of the forEach.  Where nothing re-enters the graph during the *)
(* local flush, FlushLocal takes the same steps at once.                    *)

\* _flushLocalQueue, lines 448-453
FlushLocalBegin ==
    /\ pc = "idle"
    /\ syncCbs > 0
    /\ syncCbs' = syncCbs - 1
    /\ IF ~willSyncLocal
       THEN /\ last' = Did("flushLocalSkipped", Null)
            /\ UNCHANGED <<willSyncLocal, updatedRelationships, updated, resynced, pc>>
       ELSE /\ willSyncLocal' = FALSE
            /\ updated' = updatedRelationships
            /\ updatedRelationships' = <<>>
            /\ resynced' = <<>>
            /\ pc' = "local"
            /\ last' = Did("flushLocalBegin", Null)
    /\ UNCHANGED <<identifiers, rels, metaCache, upgrades, transaction, removing, unloading,
                   isDestroyed, batch, applied, taken>>
    /\ NoPushChange /\ Callback /\ Fixed

\* one iteration of updated.forEach, line 454; the Set is visited in
\* insertion order
FlushLocalStep ==
    /\ pc = "local"
    /\ updated # <<>>
    /\ CommitNoted(syncRemoteToLocal(Cur, Head(updated)),
                   Did("flushLocalStep", Head(updated).id))
    /\ updated' = Tail(updated)
    /\ resynced' = Append(resynced, Head(updated))
    /\ UNCHANGED <<removing, unloading, isDestroyed, pc, batch, applied, taken>>
    /\ NoPushChange /\ Callback /\ Fixed

\* the end of _flushLocalQueue; the record of the flush is dropped with the
\* callback's frame
FlushLocalEnd ==
    /\ pc = "local"
    /\ updated = <<>>
    /\ pc' = "idle"
    /\ resynced' = <<>>
    /\ last' = Did("flushLocalEnd", Null)
    /\ UNCHANGED <<identifiers, rels, metaCache, upgrades, transaction, updatedRelationships,
                   willSyncLocal, syncCbs, removing, unloading, isDestroyed, updated, batch,
                   applied, taken>>
    /\ NoPushChange /\ Callback /\ Fixed

\* Graph._scheduleLocalSync, called for a to-many edge by an operation that a
\* handler runs while _flushLocalQueue iterates
ScheduleLocalSync ==
    \E i \in Ids :
        /\ pc = "local"
        /\ isHasMany(rels[<<i, KeyOf(i)>>])
        /\ LET g == scheduleLocalSync(Cur, i, KeyOf(i))
           IN /\ Commit(g)
              /\ last' = [Did("scheduleLocalSync", i) EXCEPT !.result = g.err]
        /\ UNCHANGED <<removing, unloading, isDestroyed, pc, batch, applied, taken>>
        /\ NoLocalFlushChange /\ NoPushChange /\ Callback /\ Fixed

\* the schemas with a to-many side, every field synchronous
LocalSchemas == {s \in BatchSchemas : ~s.lhsAsync /\ ~s.rhsAsync}

LocalInit ==
    /\ schema \in LocalSchemas
    /\ newIds = {}
    /\ budget = MaxLocalCalls
    /\ Constructed

LocalNext ==
    \/ BatchPush
    \/ FlushRemoteBegin
    \/ FlushRemoteStep
    \/ FlushRemoteFinalize
    \/ FlushLocalBegin
    \/ FlushLocalStep
    \/ FlushLocalEnd
    \/ ScheduleLocalSync

LocalSpec == LocalInit /\ [][LocalNext]_vars

\* C22: the local resync is coalesced per edge.  However often edges were
\* scheduled, one 'sync' callback is outstanding exactly while
\* _willSyncLocal is set, never two.  The flush takes the whole pending set
\* and leaves a fresh empty one; it visits every edge it took once (the edges
\* visited and the edges left are always those it took, and none is visited
\* twice), setting the local state of the edge from its remote state.  An
\* edge scheduled while the flush runs changes nothing of what the flush has
\* taken or visited: it goes to the fresh set and schedules a new callback,
\* whose flush takes it.
C22_LocalSyncCoalesced ==
    /\ [](syncCbs = IF willSyncLocal THEN 1 ELSE 0)
    /\ [](pc = "local" =>
            Len(resynced \o updated) = Cardinality(Range(resynced \o updated)))
    /\ [][/\ last'.op = "flushLocalBegin" =>
               (updated' = updatedRelationships /\ updated' # <<>>
                  /\ updatedRelationships' = <<>> /\ ~willSyncLocal' /\ syncCbs' = 0)
          /\ (pc = "local" /\ pc' = "local") =>
               resynced' \o updated' = resynced \o updated
          /\ last'.op = "flushLocalStep" =>
               \E ref \in {Head(updated)} :
                  /\ resynced' = Append(resynced, ref)
                  /\ ref.live =>
                       rels'[<<ref.id, ref.key>>].localState =
                          SyncedLocalState(rels[<<ref.id, ref.key>>].localState,
                                           rels[<<ref.id, ref.key>>].remoteState)
          /\ last'.op = "flushLocalEnd" => updated = <<>>
          /\ last'.op = "scheduleLocalSync" =>
               /\ UNCHANGED <<updated, resynced, rels>>
               /\ updatedRelationships' =
                     AddRef(updatedRelationships, LiveRef(last'.id, KeyOf(last'.id)))
               /\ willSyncLocal' /\ syncCbs' = 1]_vars

\* the local flush, which a remote flush of two payloads for a1.f had
\* scheduled, has visited a1.f, its only edge, once; a1.f was scheduled again
\* while the flush ran and waits in the fresh set with a callback of its own
C22_Witness ==
    /\ pc = "local"
    /\ calls = 2 /\ pushed = <<>>
    /\ updated = <<>>
    /\ resynced = <<LiveRef("a1", "f")>>
    /\ updatedRelationships = <<LiveRef("a1", "f")>>
    /\ willSyncLocal /\ syncCbs = 1
    /\ rels[<<"a1", "f">>].localState = <<"b2", "b1">>

-----------------------------------------------------------------------------
(* Pending work: the cache pushes any operation, also one that push refuses *)
(* and also after it has destroyed the graph, and the flushes are invoked   *)
(* while nothing is scheduled.                                              *)

\* push raises at line 307: a flush has to be scheduled and the store is gone
PushFindsNoStore(op) ==
    /\ ~PushRaises(op)
    /\ ~willSyncRemote
    /\ isDestroyed

\* Graph.push, lines 291-309, with the ways it can raise: the assertion of
\* line 302 before anything is queued, and getStore(this.store) at line 307 on
\* a graph whose store destroy has cleared (474), after the operation was
\* queued (297-303) and _willSyncRemote set (306).  last.result records that
\* the call raised.  On a destroyed graph only operations that need no
\* definition are pushed.
PushCall ==
    \E r \in Ids : \E op \in FieldOps(r) \cup {DeleteOp(r)} :
        /\ pc = "idle" /\ Called
        /\ Pending < MaxPending
        /\ isDestroyed => op.op \in {"deleteRecord", "replaceRelatedRecord"}
        /\ LET g == IF op.op \in {"deleteRecord", "replaceRelatedRecord"} THEN Cur
                    ELSE getDefinition(Cur, op.record, op.field)
           IN  metaCache' = g.meta /\ upgrades' = g.upgr
        /\ IF PushRaises(op)
           THEN UNCHANGED <<pushedUpdates, pushed, willSyncRemote, coalesceCbs>>
           ELSE /\ pushedUpdates' = [pushedUpdates EXCEPT ![QueueOf(op)] = Append(@, op)]
                /\ pushed' = Append(pushed, op)
                /\ willSyncRemote' = TRUE
                /\ coalesceCbs' = IF ~willSyncRemote /\ ~isDestroyed
                                  THEN coalesceCbs + 1 ELSE coalesceCbs
        /\ last' = [Did("pushCall", op.record) EXCEPT
                       !.result = PushRaises(op) \/ PushFindsNoStore(op)]
        /\ UNCHANGED <<identifiers, rels, willSyncLocal, updatedRelationships,
                       transaction, removing, unloading, isDestroyed, syncCbs>>
        /\ NoFlushChange /\ Fixed

\* _flushRemoteQueue invoked while _willSyncRemote is clear, lines 396-398
FlushRemoteIdle ==
    /\ pc = "idle"
    /\ ~willSyncRemote
    /\ last.op # "flushRemoteSkipped"
    /\ last' = Did("flushRemoteSkipped", Null)
    /\ UNCHANGED <<identifiers, rels, metaCache, upgrades, transaction, updatedRelationships,
                   willSyncLocal, syncCbs, removing, unloading, isDestroyed>>
    /\ NoPushChange /\ NoFlushChange /\ Callback /\ Fixed

\* _flushLocalQueue invoked while _willSyncLocal is clear, lines 448-450
FlushLocalIdle ==
    /\ pc = "idle"
    /\ ~willSyncLocal
    /\ last.op # "flushLocalSkipped"
    /\ last' = Did("flushLocalSkipped", Null)
    /\ UNCHANGED <<identifiers, rels, metaCache, upgrades, transaction, updatedRelationships,
                   willSyncLocal, syncCbs, removing, unloading, isDestroyed>>
    /\ NoPushChange /\ NoFlushChange /\ Callback /\ Fixed

PendingInit ==
    /\ schema \in Schemas
    /\ newIds = {}
    /\ budget = MaxPendingCalls
    /\ Constructed

PendingNext ==
    \/ PushCall
    \/ FlushRemoteBegin
    \/ FlushRemoteStep
    \/ FlushRemoteFinalize
    \/ FlushRemoteIdle
    \/ FlushLocal
    \/ FlushLocalIdle
    \/ Destroy

PendingSpec == PendingInit /\ [][PendingNext]_vars

\* C23, first part: outside a running flush, operations wait only with
\* _willSyncRemote set and edges wait for their local sync only with
\* _willSyncLocal set
C23_PendingMeansFlagged ==
    pc = "idle" =>
        /\ pushedUpdates # NoUpdates => willSyncRemote
        /\ updatedRelationships # <<>> => willSyncLocal

\* C23, last part: a flush invoked while its flag is clear changes nothing
C23_IdleFlushChangesNothing ==
    [][last'.op \in {"flushRemoteSkipped", "flushLocalSkipped"} =>
          /\ GraphNow' = GraphNow
          /\ UNCHANGED <<pushedUpdates, willSyncRemote, pc, batch, isDestroyed>>]_vars

\* C23, middle part: a push that raises queues nothing and schedules nothing
C23_RaisingPushQueuesNothing ==
    [][(last'.op = "pushCall" /\ last'.result) =>
          UNCHANGED <<pushedUpdates, willSyncRemote, coalesceCbs>>]_vars

\* C23: no work is stranded.  Outside a running flush a non-empty pending
\* queue has _willSyncRemote set and a non-empty _updatedRelationships has
\* _willSyncLocal set; a push that raises queues nothing and schedules
\* nothing; and a flush invoked while its flag is clear changes no state.
C23_NoWorkIsStranded ==
    /\ []C23_PendingMeansFlagged
    /\ C23_RaisingPushQueuesNothing
    /\ C23_IdleFlushChangesNothing
====
